---------------------------- MODULE Spec2Model ----------------------------
(***************************************************************************)
(* Model of the statistics / date-range engine of senob-backend:           *)
(*   utils/dateUtils  (TimeWindow calculator, normalizer, formatter)       *)
(*   services/statsService (aggregator), routes/statsRoutes, app.onError   *)
(*                                                                         *)
(* An instant is the JavaScript time value (milliseconds since the epoch,  *)
(* UTC) written as the pair [d, ms] = (t div 86400000, t mod 86400000), so *)
(* that millisecond arithmetic stays inside TLC's integers.                *)
(***************************************************************************)
EXTENDS Integers, Sequences, FiniteSets, TLC

VARIABLES
    tz,          \* the runtime's local time zone (process environment)
    now,         \* the wall clock, what `new Date()` returns
    range,       \* result of the last getDateRange call
    norm,        \* argument and result of the last normalizeDate call
    patients,    \* patients collection: sequence of documents
    treatments,  \* treatments collection: sequence of documents
    connected,   \* the collection references of database.ts are non-null
    resp,        \* the HTTP response of the last stats request
    reads,       \* store reads issued by the last stats request
    calc,        \* arguments and result of the last computation on its own
    req,         \* the request in progress, between its awaits
    apiKey,      \* process.env.OPENAI_API_KEY
    openaiClient,\* the cached client of services/openai
    disk,        \* names of the files in the attachments directory
    calls,       \* the service calls in flight, each between its awaits
    database,    \* client, db and the collection references of database.ts
    clients      \* the MongoClient objects created so far and their state

\* the state of the services beside the statistics engine
serviceVars == <<apiKey, openaiClient, disk, calls, database, clients>>

vars == <<tz, now, range, norm, patients, treatments, connected, resp, reads, calc, req, serviceVars>>

-----------------------------------------------------------------------------
(* Bounds of the model *)

\* number of consecutive UTC days, from FirstDay on, the wall clock is drawn from
NumDays == 45
\* largest partition size the change computation is applied to
MaxCount == 40
\* largest number of documents in the treatments collection
MaxTreatments == 2
\* largest number of documents in the patients collection
MaxPatients == 2

-----------------------------------------------------------------------------
(* ECMAScript Date arithmetic *)

MsPerHour == 60 * 60 * 1000
MsPerDay == 24 * MsPerHour

Inst(d, ms) == [d |-> d, ms |-> ms]

\* t + k milliseconds, |k| below a day
AddMs(t, k) ==
    LET total == t.ms + k
    IN  Inst(t.d + (total \div MsPerDay), total % MsPerDay)

\* a.getTime() - b.getTime(), as (days, ms) with 0 <= ms < MsPerDay
DiffTime(a, b) ==
    LET ms == a.ms - b.ms
    IN  [d |-> (a.d - b.d) + (ms \div MsPerDay), ms |-> ms % MsPerDay]

\* t.setTime(t.getTime() - dur)
SubTime(t, dur) ==
    LET ms == t.ms - dur.ms
    IN  Inst((t.d - dur.d) + (ms \div MsPerDay), ms % MsPerDay)

Before(a, b) == a.d < b.d \/ (a.d = b.d /\ a.ms < b.ms)
AtOrBefore(a, b) == a = b \/ Before(a, b)

\* Day number of the civil date y-m-d (m in 1..12), days since 1970-01-01.
\* The steps of the computation are operators that take the values computed
\* so far.
DayOfEra(era, yoe, doy) == era * 146097 + (yoe * 365 + (yoe \div 4) - (yoe \div 100) + doy) - 719468

DayOfShiftedYear(yy, mp, d) ==
    DayOfEra(yy \div 400, yy - (yy \div 400) * 400, ((153 * mp + 2) \div 5) + d - 1)

DaysFromCivil(y, m, d) ==
    IF m <= 2 THEN DayOfShiftedYear(y - 1, m + 9, d) ELSE DayOfShiftedYear(y, m - 3, d)

\* The civil date of a day number: [year, month (1..12), date]
CivilOfMonth(era, yoe, doy, mp) ==
    [year  |-> (yoe + era * 400) + (IF mp < 10 THEN 0 ELSE 1),
     month |-> IF mp < 10 THEN mp + 3 ELSE mp - 9,
     date  |-> doy - ((153 * mp + 2) \div 5) + 1]

CivilOfDayOfYear(era, yoe, doy) == CivilOfMonth(era, yoe, doy, (5 * doy + 2) \div 153)

CivilOfYearOfEra(era, doe, yoe) ==
    CivilOfDayOfYear(era, yoe, doe - (365 * yoe + (yoe \div 4) - (yoe \div 100)))

CivilOfDayOfEra(era, doe) ==
    CivilOfYearOfEra(era, doe, (doe - (doe \div 1460) + (doe \div 36524) - (doe \div 146096)) \div 365)

CivilOfShiftedDay(zz) == CivilOfDayOfEra(zz \div 146097, zz - (zz \div 146097) * 146097)

CivilFromDays(z) == CivilOfShiftedDay(z + 719468)

\* ECMAScript MakeDay(year, month, date): month is zero-based and may be any
\* integer, date may be any integer; out-of-range values roll over.
MakeDay(year, month0, date) ==
    DaysFromCivil(year + (month0 \div 12), (month0 % 12) + 1, 1) + date - 1

\* Day of the week of a day number, 0 = Sunday (1970-01-01 was a Thursday)
WeekDay(z) == (z + 4) % 7

UTCDate(y, m, d, ms) == Inst(DaysFromCivil(y, m, d), ms)

-----------------------------------------------------------------------------
(* The local time zone: a standard offset and the periods of summer time *)

NoDst == <<>>

ZoneUTC == [name |-> "UTC", std |-> 0, dst |-> NoDst]

ZoneRome ==
    [name |-> "Europe/Rome", std |-> MsPerHour,
     dst |-> << [on |-> UTCDate(2022, 3, 27, MsPerHour), off |-> UTCDate(2022, 10, 30, MsPerHour)],
                [on |-> UTCDate(2023, 3, 26, MsPerHour), off |-> UTCDate(2023, 10, 29, MsPerHour)],
                [on |-> UTCDate(2024, 3, 31, MsPerHour), off |-> UTCDate(2024, 10, 27, MsPerHour)] >>]

ZoneNewYork ==
    [name |-> "America/New_York", std |-> -5 * MsPerHour,
     dst |-> << [on |-> UTCDate(2022, 3, 13, 7 * MsPerHour), off |-> UTCDate(2022, 11, 6, 6 * MsPerHour)],
                [on |-> UTCDate(2023, 3, 12, 7 * MsPerHour), off |-> UTCDate(2023, 11, 5, 6 * MsPerHour)],
                [on |-> UTCDate(2024, 3, 10, 7 * MsPerHour), off |-> UTCDate(2024, 11, 3, 6 * MsPerHour)] >>]

ZoneTokyo == [name |-> "Asia/Tokyo", std |-> 9 * MsPerHour, dst |-> NoDst]

Zones == {ZoneUTC, ZoneRome, ZoneNewYork, ZoneTokyo}

\* The Date methods below are functions of the zone and of the values they
\* are applied to.
Instant == [d : Int, ms : 0 .. MsPerDay - 1]

InDst[zone \in Zones, t \in Instant] ==
    \E i \in DOMAIN zone.dst : AtOrBefore(zone.dst[i].on, t) /\ Before(t, zone.dst[i].off)

\* Offset of local time from UTC at instant t, in ms
Offset[zone \in Zones, t \in Instant] == IF InDst[zone, t] THEN zone.std + MsPerHour ELSE zone.std

\* LocalTime(t): the local wall-clock reading [d, ms] of instant t
LocalTime[zone \in Zones, t \in Instant] == AddMs(t, Offset[zone, t])

\* UTC(local): the instant a local wall-clock reading denotes.  A reading that
\* occurs twice denotes the earlier instant; a reading that is skipped is
\* taken with the offset in force before the transition.
UTC[zone \in Zones, local \in Instant] ==
    LET viaDst == AddMs(local, -(zone.std + MsPerHour))
        viaStd == AddMs(local, -zone.std)
    IN  IF InDst[zone, viaDst] THEN viaDst
        ELSE IF ~InDst[zone, viaStd] THEN viaStd
        ELSE AddMs(local, -Offset[zone, Inst(viaStd.d - 1, viaStd.ms)])

getFullYear[zone \in Zones, t \in Instant] == CivilFromDays(LocalTime[zone, t].d).year
getMonth[zone \in Zones, t \in Instant] == CivilFromDays(LocalTime[zone, t].d).month - 1
getDate[zone \in Zones, t \in Instant] == CivilFromDays(LocalTime[zone, t].d).date
getHours[zone \in Zones, t \in Instant] == LocalTime[zone, t].ms \div MsPerHour
getDay[zone \in Zones, t \in Instant] == WeekDay(LocalTime[zone, t].d)

\* date.setHours(h, m, s, ms): same local day, given time of day
setHours[zone \in Zones, t \in Instant, msOfDay \in Nat] ==
    UTC[zone, Inst(LocalTime[zone, t].d, msOfDay)]

\* date.setDate(n): local year and month kept, time of day kept
setDate[zone \in Zones, t \in Instant, n \in Int] ==
    UTC[zone, Inst(MakeDay(getFullYear[zone, t], getMonth[zone, t], n), LocalTime[zone, t].ms)]

\* date.setMonth(m0): local year, date and time of day kept
setMonth[zone \in Zones, t \in Instant, m0 \in Int] ==
    UTC[zone, Inst(MakeDay(getFullYear[zone, t], m0, getDate[zone, t]), LocalTime[zone, t].ms)]

\* date.setFullYear(y): local month, date and time of day kept
setFullYear[zone \in Zones, t \in Instant, y \in Int] ==
    UTC[zone, Inst(MakeDay(y, getMonth[zone, t], getDate[zone, t]), LocalTime[zone, t].ms)]

-----------------------------------------------------------------------------
(* utils/dateUtils: time frames *)

TimeFrames == {"1d", "1w", "1m", "6m", "1y"}

TIME_FRAME_CONFIG ==
    [tf \in TimeFrames |->
        CASE tf = "1d" -> [duration |-> 1, unit |-> "day",   groupingInterval |-> "hour",  includeToday |-> TRUE]
          [] tf = "1w" -> [duration |-> 7, unit |-> "day",   groupingInterval |-> "day",   includeToday |-> TRUE]
          [] tf = "1m" -> [duration |-> 1, unit |-> "month", groupingInterval |-> "day",   includeToday |-> TRUE]
          [] tf = "6m" -> [duration |-> 6, unit |-> "month", groupingInterval |-> "week",  includeToday |-> TRUE]
          [] tf = "1y" -> [duration |-> 1, unit |-> "year",  groupingInterval |-> "month", includeToday |-> TRUE]]

\* TIME_FRAME_CONFIG is an object literal: indexing it with a string also finds
\* the members it inherits from Object.prototype, which are functions (truthy)
\* whose duration, unit, groupingInterval and includeToday are undefined.
ObjectPrototypeKeys == {"constructor", "toString", "valueOf", "hasOwnProperty"}

PrototypeMember ==
    [duration |-> 0, unit |-> "undefined", groupingInterval |-> "undefined", includeToday |-> FALSE]

\* the test `!config` of getDateRange and getGroupingInterval, negated
ConfigFound(timeFrame) == timeFrame \in TimeFrames \cup ObjectPrototypeKeys

\* TIME_FRAME_CONFIG[timeFrame], when found
ConfigOf(timeFrame) ==
    IF timeFrame \in TimeFrames THEN TIME_FRAME_CONFIG[timeFrame] ELSE PrototypeMember

addTimeUnit(zone, date, amount, unit) ==
    CASE unit = "day"   -> setDate[zone, date, getDate[zone, date] + amount]
      [] unit = "month" -> setMonth[zone, date, getMonth[zone, date] + amount]
      [] unit = "year"  -> setFullYear[zone, date, getFullYear[zone, date] + amount]
      [] OTHER          -> date

setStartOfDay(zone, date) == setHours[zone, date, 0]

setEndOfDay(zone, date) == setHours[zone, date, MsPerDay - 1]

\* calculateStartDate that subtracts the full duration for day frames too
calculateStartDate_FullDuration(zone, clock, config) ==
    setStartOfDay(zone, addTimeUnit(zone, clock, -config.duration, config.unit))

calculateStartDate(zone, clock, config) ==
    IF config.unit = "day"
    THEN LET daysToSubtract == IF config.includeToday THEN config.duration - 1 ELSE config.duration
         IN  setStartOfDay(zone, addTimeUnit(zone, clock, -daysToSubtract, config.unit))
    ELSE setStartOfDay(zone, addTimeUnit(zone, clock, -config.duration, config.unit))

calculateEndDate(zone, clock, config) ==
    IF config.includeToday
    THEN setEndOfDay(zone, clock)
    ELSE setEndOfDay(zone, addTimeUnit(zone, clock, -1, "day"))

\* calculatePreviousPeriod that ends the previous window at start itself
calculatePreviousPeriod_Overlapping(zone, start, end) ==
    [previousStart |-> setStartOfDay(zone, SubTime(start, DiffTime(end, start))),
     previousEnd   |-> setEndOfDay(zone, start)]

calculatePreviousPeriod(zone, start, end) ==
    LET periodDuration == DiffTime(end, start)
        previousEnd    == AddMs(start, -1)
        previousStart  == SubTime(previousEnd, periodDuration)
    IN  [previousStart |-> setStartOfDay(zone, previousStart),
         previousEnd   |-> setEndOfDay(zone, previousEnd)]

\* return { start, end, previousStart, previousEnd }
DateRange(timeFrame, start, end, prev) ==
    [status |-> "ok", timeFrame |-> timeFrame, start |-> start, end |-> end,
     previousStart |-> prev.previousStart, previousEnd |-> prev.previousEnd]

\* the last two steps of getDateRange, given start and end
RangeBetween(zone, timeFrame, start, end) ==
    DateRange(timeFrame, start, end, calculatePreviousPeriod(zone, start, end))

\* getDateRange(timeFrame), with the zone and the clock reading made explicit
getDateRange(zone, clock, timeFrame) ==
    IF ~ConfigFound(timeFrame)
    THEN [status |-> "throw", error |-> "Error", message |-> "Invalid time frame", timeFrame |-> timeFrame]
    ELSE RangeBetween(zone, timeFrame,
                      calculateStartDate(zone, clock, ConfigOf(timeFrame)),
                      calculateEndDate(zone, clock, ConfigOf(timeFrame)))

getGroupingInterval(timeFrame) ==
    IF ~ConfigFound(timeFrame)
    THEN [status |-> "throw", error |-> "Error", message |-> "Invalid time frame"]
    ELSE [status |-> "ok", interval |-> ConfigOf(timeFrame).groupingInterval]

-----------------------------------------------------------------------------
(* utils/dateUtils: date values of stored documents *)

\* A stored date value is one of
\*   [kind |-> "undefined"]                       the field is absent
\*   [kind |-> "empty"]                           the string ''
\*   [kind |-> "garbage"]                         a string no date can be parsed from
\*   [kind |-> "Date", t |-> instant]             a native Date
\*   [kind |-> "date-only", year, month, date]    the string 'YYYY-MM-DD'
\*   [kind |-> "utc", year, month, date, ms]      the string 'YYYY-MM-DDTHH:mm:ss.sssZ'
\*   [kind |-> "local", year, month, date, ms]    the string 'YYYY-MM-DDTHH:mm:ss.sss'
Null == [ok |-> FALSE]

Some(t) == [ok |-> TRUE, t |-> t]

\* new Date(string) for the parseable kinds: a date-only form is UTC midnight,
\* a date-time form without offset is local time
ParseDate(zone, raw) ==
    CASE raw.kind = "date-only" -> UTCDate(raw.year, raw.month, raw.date, 0)
      [] raw.kind = "utc"       -> UTCDate(raw.year, raw.month, raw.date, raw.ms)
      [] raw.kind = "local"     -> UTC[zone, Inst(DaysFromCivil(raw.year, raw.month, raw.date), raw.ms)]

\* normalizeDate that moves every parsed string to the start of its day
normalizeDate_FloorsStrings(zone, raw) ==
    CASE raw.kind \in {"undefined", "empty", "garbage"} -> Null
      [] raw.kind = "Date" -> Some(raw.t)
      [] OTHER             -> Some(setStartOfDay(zone, ParseDate(zone, raw)))

\* normalizeDate that takes an absent date for the current time
normalizeDate_AbsentIsNow(zone, raw) ==
    CASE raw.kind = "undefined" -> Some(UTCDate(2024, 3, 15, 10 * MsPerHour))
      [] raw.kind \in {"empty", "garbage"} -> Null
      [] raw.kind = "Date"      -> Some(raw.t)
      [] raw.kind = "date-only" -> Some(setStartOfDay(zone, ParseDate(zone, raw)))
      [] OTHER                  -> Some(ParseDate(zone, raw))

normalizeDate(zone, raw) ==
    CASE raw.kind \in {"undefined", "empty"} -> Null
      [] raw.kind = "Date"      -> Some(raw.t)
      [] raw.kind = "garbage"   -> Null
      [] raw.kind = "date-only" -> Some(setStartOfDay(zone, ParseDate(zone, raw)))
      [] OTHER                  -> Some(ParseDate(zone, raw))

\* isDateInRange that compares the instant itself against start-of-day bounds
isDateInRange_StartOfDayBounds(zone, date, start, end) ==
    AtOrBefore(setStartOfDay(zone, start), date) /\ AtOrBefore(date, setStartOfDay(zone, end))

\* isDateInRange whose upper bound is the end of the day after `end`
isDateInRange_DayAfterEnd(zone, date, start, end) ==
    /\ AtOrBefore(setStartOfDay(zone, start), setStartOfDay(zone, date))
    /\ AtOrBefore(setStartOfDay(zone, date), setEndOfDay(zone, AddMs(setEndOfDay(zone, end), 1)))

isDateInRange(zone, date, start, end) ==
    LET normalizedDate  == setStartOfDay(zone, date)
        normalizedStart == setStartOfDay(zone, start)
        normalizedEnd   == setEndOfDay(zone, end)
    IN  AtOrBefore(normalizedStart, normalizedDate) /\ AtOrBefore(normalizedDate, normalizedEnd)

-----------------------------------------------------------------------------
(* utils/dateUtils: bucket labels.  A string is a sequence of characters. *)

DigitChar == <<"0", "1", "2", "3", "4", "5", "6", "7", "8", "9">>

\* String(n), n a natural number
RECURSIVE String(_)
String(n) == IF n < 10 THEN <<DigitChar[n + 1]>> ELSE String(n \div 10) \o <<DigitChar[(n % 10) + 1]>>

\* s.padStart(2, '0')
padStart2(s) == IF Len(s) < 2 THEN <<"0">> \o s ELSE s

getDateComponents(zone, date) ==
    [year  |-> String(getFullYear[zone, date]),
     month |-> padStart2(String(getMonth[zone, date] + 1)),
     day   |-> padStart2(String(getDate[zone, date])),
     hour  |-> padStart2(String(getHours[zone, date]))]

\* getWeekStart without the conversion of Sunday (0) to 7
getWeekStart_SundayFirst(zone, date) ==
    setDate[zone, date, getDate[zone, date] - getDay[zone, date] + 1]

getWeekStart(zone, date) ==
    LET dayOfWeek == IF getDay[zone, date] = 0 THEN 7 ELSE getDay[zone, date]
    IN  setDate[zone, date, getDate[zone, date] - dayOfWeek + 1]

\* what a function that returns nothing yields, used as an object key
UndefinedKey == <<"u", "n", "d", "e", "f", "i", "n", "e", "d">>

\* the label, given the components c of the date and w of its week start
LabelOf(c, w, interval) ==
        CASE interval = "hour"  -> c.year \o <<"-">> \o c.month \o <<"-">> \o c.day \o <<" ">> \o c.hour \o <<":", "0", "0">>
          [] interval = "day"   -> c.year \o <<"-">> \o c.month \o <<"-">> \o c.day
          [] interval = "week"  -> w.year \o <<"-">> \o w.month \o <<"-">> \o w.day
          [] interval = "month" -> c.year \o <<"-">> \o c.month
          [] OTHER              -> UndefinedKey

formatDateForGrouping(zone, date, interval) ==
    LabelOf(getDateComponents(zone, date), getDateComponents(zone, getWeekStart(zone, date)), interval)

\* the order of characters that the labels are compared by
CharCode(ch) ==
    CASE ch = " " -> 32
      [] ch = "-" -> 45
      [] ch = ":" -> 58
      [] ch \in {DigitChar[i] : i \in 1..10} -> 47 + (CHOOSE i \in 1..10 : DigitChar[i] = ch)
      [] OTHER -> 100

\* a.localeCompare(b) < 0
RECURSIVE StringLess(_, _)
StringLess(a, b) ==
    IF b = <<>> THEN FALSE
    ELSE IF a = <<>> THEN TRUE
    ELSE IF CharCode(Head(a)) # CharCode(Head(b)) THEN CharCode(Head(a)) < CharCode(Head(b))
    ELSE StringLess(Tail(a), Tail(b))

-----------------------------------------------------------------------------
(* services/statsService *)

\* groupByInterval: the mapping label -> count over the items whose date normalizes
\* (dateExtractor reads the field named dateField)
\* groupByInterval that sets a label's count to 1 instead of adding 1 to it
groupByInterval_NoIncrement(zone, items, interval, dateField) ==
    LET dated  == {i \in DOMAIN items : normalizeDate(zone, items[i][dateField]).ok}
        key(i) == formatDateForGrouping(zone, normalizeDate(zone, items[i][dateField]).t, interval)
    IN  [k \in {key(i) : i \in dated} |-> 1]

groupByInterval(zone, items, interval, dateField) ==
    LET dated  == {i \in DOMAIN items : normalizeDate(zone, items[i][dateField]).ok}
        key(i) == formatDateForGrouping(zone, normalizeDate(zone, items[i][dateField]).t, interval)
        keys   == {key(i) : i \in dated}
    IN  [k \in keys |-> Cardinality({i \in dated : key(i) = k})]

\* convertToPeriodData: the entries of the mapping, sorted by label
RECURSIVE SortedEntries(_, _)
SortedEntries(grouped, keys) ==
    IF keys = {} THEN <<>>
    ELSE LET first == CHOOSE k \in keys : \A o \in keys \ {k} : StringLess(k, o)
         IN  <<[period |-> first, count |-> grouped[first]]>> \o SortedEntries(grouped, keys \ {first})

\* a conversion that loses the bucket of the first label
convertToPeriodData_DropsFirst(grouped) ==
    IF DOMAIN grouped = {} THEN <<>> ELSE Tail(SortedEntries(grouped, DOMAIN grouped))

convertToPeriodData(grouped) == SortedEntries(grouped, DOMAIN grouped)

\* Math.floor in the place of Math.round
MathRound_Floor(num, den) == num \div den

\* Math.round(x) for x = num / den, den > 0: the nearest integer, a tie going up.
\* (The computation is in doubles; for totals below 160 it gives the integer
\* that exact arithmetic gives.)
MathRound(num, den) == (2 * num + den) \div (2 * den)

\* the change without its branch for an empty previous partition
ChangeOf_NoBaseline(totalCurrent, totalPrevious) ==
    IF totalPrevious > 0
    THEN MathRound((totalCurrent - totalPrevious) * 100 * 100, totalPrevious)
    ELSE 0

\* The change of a pair of totals, as reported: Math.round(change * 100) / 100,
\* written in hundredths of a percent point (-5000 is -50.00)
ChangeOf(totalCurrent, totalPrevious) ==
    IF totalPrevious > 0
    THEN MathRound((totalCurrent - totalPrevious) * 100 * 100, totalPrevious)
    ELSE IF totalCurrent > 0 THEN 100 * 100 ELSE 0

DatabaseNotInitialized(n) ==
    [status |-> "throw", error |-> "HTTPError", statusCode |-> 500,
     errorCode |-> "Database Error", message |-> "Database not initialized", reads |-> n]

\* an Error thrown by getDateRange or getGroupingInterval leaves the service method
Thrown(r, n) == [status |-> "throw", error |-> r.error, message |-> r.message, reads |-> n]

\* collection.find({createdAt: {$gte: start, $lte: end}}): documents whose
\* createdAt is a date within the bounds (a string never matches a date bound)
FindCreatedBetween(docs, start, end) ==
    LET keep(doc) == doc.createdAt.kind = "Date"
                     /\ AtOrBefore(start, doc.createdAt.t) /\ AtOrBefore(doc.createdAt.t, end)
    IN  SelectSeq(docs, keep)

\* allTreatments.filter(t => { date = normalizeDate(t.date); return date && isDateInRange(...) })
TreatmentsBetween(zone, docs, start, end) ==
    LET keep(doc) == normalizeDate(zone, doc.date).ok
                     /\ isDateInRange(zone, normalizeDate(zone, doc.date).t, start, end)
    IN  SelectSeq(docs, keep)

TimeSeries(zone, timeFrame, interval, current, previous, dateField, n) ==
    [status |-> "ok", reads |-> n,
     value |-> [timeFrame |-> timeFrame,
                current   |-> [data  |-> convertToPeriodData(groupByInterval(zone, current, interval, dateField)),
                               total |-> Len(current)],
                previous  |-> [data  |-> convertToPeriodData(groupByInterval(zone, previous, interval, dateField)),
                               total |-> Len(previous)],
                change    |-> ChangeOf(Len(current), Len(previous))]]

\* getPatientsStats from line 21 on, r and g being the results of lines 18 and 19
PatientsInRange(zone, patientDocs, timeFrame, r, g) ==
    IF r.status = "throw" THEN Thrown(r, 0)
    ELSE IF g.status = "throw" THEN Thrown(g, 0)
    ELSE TimeSeries(zone, timeFrame, g.interval,
                    FindCreatedBetween(patientDocs, r.start, r.end),
                    FindCreatedBetween(patientDocs, r.previousStart, r.previousEnd),
                    "createdAt", 2)

getPatientsStats(zone, clock, isConnected, patientDocs, timeFrame) ==
    IF ~isConnected THEN DatabaseNotInitialized(0)
    ELSE PatientsInRange(zone, patientDocs, timeFrame,
                         getDateRange(zone, clock, timeFrame), getGroupingInterval(timeFrame))

\* getTreatmentsStats from line 75 on, r and g being the results of lines 72 and 73
TreatmentsInRange(zone, treatmentDocs, timeFrame, r, g) ==
    IF r.status = "throw" THEN Thrown(r, 0)
    ELSE IF g.status = "throw" THEN Thrown(g, 0)
    ELSE TimeSeries(zone, timeFrame, g.interval,
                    TreatmentsBetween(zone, treatmentDocs, r.start, r.end),
                    TreatmentsBetween(zone, treatmentDocs, r.previousStart, r.previousEnd),
                    "date", 1)

getTreatmentsStats(zone, clock, isConnected, treatmentDocs, timeFrame) ==
    IF ~isConnected THEN DatabaseNotInitialized(0)
    ELSE TreatmentsInRange(zone, treatmentDocs, timeFrame,
                           getDateRange(zone, clock, timeFrame), getGroupingInterval(timeFrame))

\* return { timeFrame, patients: {...}, treatments: {...} }
Overview(timeFrame, currentPatients, previousPatients, currentTreatmentsCount, previousTreatments) ==
    [status |-> "ok", reads |-> 3,
     value |-> [timeFrame  |-> timeFrame,
                patients   |-> [current  |-> currentPatients,
                                previous |-> previousPatients,
                                change   |-> ChangeOf(currentPatients, previousPatients)],
                treatments |-> [current  |-> currentTreatmentsCount,
                                previous |-> previousTreatments,
                                change   |-> ChangeOf(currentTreatmentsCount, previousTreatments)]]]

\* getOverviewStats that counts the previous patients over the current window
OverviewInRange_CurrentTwice(zone, patientDocs, treatmentDocs, timeFrame, r) ==
    IF r.status = "throw" THEN Thrown(r, 0)
    ELSE Overview(timeFrame,
                  Len(FindCreatedBetween(patientDocs, r.start, r.end)),
                  Len(FindCreatedBetween(patientDocs, r.start, r.end)),
                  Len(TreatmentsBetween(zone, treatmentDocs, r.start, r.end)),
                  Len(TreatmentsBetween(zone, treatmentDocs, r.previousStart, r.previousEnd)))

\* getOverviewStats from line 127 on, r being the result of line 125
OverviewInRange(zone, patientDocs, treatmentDocs, timeFrame, r) ==
    IF r.status = "throw" THEN Thrown(r, 0)
    ELSE Overview(timeFrame,
                  Len(FindCreatedBetween(patientDocs, r.start, r.end)),
                  Len(FindCreatedBetween(patientDocs, r.previousStart, r.previousEnd)),
                  Len(TreatmentsBetween(zone, treatmentDocs, r.start, r.end)),
                  Len(TreatmentsBetween(zone, treatmentDocs, r.previousStart, r.previousEnd)))

\* getOverviewStats without the test of the collections: countDocuments of null
getOverviewStats_Unchecked(zone, clock, isConnected, patientDocs, treatmentDocs, timeFrame) ==
    IF ~isConnected
    THEN [status |-> "throw", error |-> "TypeError", message |-> "Cannot read properties of null", reads |-> 0]
    ELSE OverviewInRange(zone, patientDocs, treatmentDocs, timeFrame,
                         getDateRange(zone, clock, timeFrame))

getOverviewStats(zone, clock, isConnected, patientDocs, treatmentDocs, timeFrame) ==
    IF ~isConnected THEN DatabaseNotInitialized(0)
    ELSE OverviewInRange(zone, patientDocs, treatmentDocs, timeFrame,
                         getDateRange(zone, clock, timeFrame))

-----------------------------------------------------------------------------
(* routes/statsRoutes and the error handler of index.ts *)

\* c.req.query('timeFrame') || '1m'; an absent parameter and '' are both ""
TimeFrameParam(query) == IF query = "" THEN "1m" ELSE query

\* app.onError: an HTTPError keeps its status and code, anything else is a 500
onError(err) ==
    IF err.error = "HTTPError"
    THEN [status |-> err.statusCode, error |-> [code |-> err.errorCode, message |-> err.message]]
    ELSE [status |-> 500, error |-> [code |-> "Server Error", message |-> err.message]]

\* the response of a route whose service call ended as `out`
Respond(op, query, out) ==
    IF out.status = "ok"
    THEN [op |-> op, query |-> query, status |-> 200, data |-> out.value]
    ELSE [op |-> op, query |-> query] @@ onError(out)

\* a handler that empties the treatments it has read
Answer_Consuming(op, query, out) ==
    /\ resp' = Respond(op, query, out)
    /\ reads' = out.reads
    /\ patients' = patients
    /\ treatments' = <<>>

\* the handler's answer: the response goes out and `reads` store reads were
\* made (find, countDocuments), which leave the two collections as they are
Answer(op, query, out) ==
    /\ resp' = Respond(op, query, out)
    /\ reads' = out.reads
    /\ UNCHANGED <<patients, treatments>>

-----------------------------------------------------------------------------
(* Inputs *)

FirstDay == DaysFromCivil(2024, 2, 20)

ClockTimes == {0, MsPerHour \div 2, 10 * MsPerHour, MsPerDay - 1}

\* readings of the wall clock
Clock == {Inst(FirstDay + i, ms) : i \in 0 .. NumDays - 1, ms \in ClockTimes}

\* values of the timeFrame query parameter
Queries == {"", "1d", "1w", "1m", "6m", "1y", "2w", "constructor"}

DateOnly(y, m, d) == [kind |-> "date-only", year |-> y, month |-> m, date |-> d]

NativeDate(t) == [kind |-> "Date", t |-> t]

Unusable == {[kind |-> "undefined"], [kind |-> "empty"], [kind |-> "garbage"]}

\* arguments of normalizeDate
RawDates ==
    Unusable
    \cup {DateOnly(2024, 3, 15), DateOnly(2024, 1, 1), DateOnly(2023, 12, 31), DateOnly(2024, 3, 31)}
    \cup {[kind |-> "utc", year |-> 2024, month |-> 3, date |-> 15, ms |-> 14 * MsPerHour + MsPerHour \div 2],
          [kind |-> "local", year |-> 2024, month |-> 3, date |-> 15, ms |-> 23 * MsPerHour],
          NativeDate(UTCDate(2024, 3, 15, 3 * MsPerHour))}

NoRange == [status |-> "none"]
NoNorm == [raw |-> [kind |-> "none"]]
NoResp == [op |-> "none"]
NoCalc == [change |-> "none"]
NoReq == [pc |-> "idle"]

\* database.ts as the module is loaded (lines 9-15); `indexes` tells whether
\* the unique indexes of createIndexes exist on the server
NoDatabase ==
    [client |-> Null, db |-> Null, patientsCollection |-> Null,
     treatmentsCollection |-> Null, appointmentsCollection |-> Null, indexes |-> FALSE]

\* lines 30-35: db and the three collections are taken from the client k
OpenDatabase(k) ==
    [client |-> Some(k), db |-> Some(k), patientsCollection |-> Some(k),
     treatmentsCollection |-> Some(k), appointmentsCollection |-> Some(k), indexes |-> FALSE]

\* database.ts before connectDatabase, or after it has run to its end
InitDatabase ==
    /\ database = IF connected THEN [OpenDatabase(1) EXCEPT !.indexes = TRUE] ELSE NoDatabase
    /\ clients = IF connected THEN <<"connected">> ELSE <<>>

\* the services at rest: no key, no client of the AI provider, an empty
\* attachments directory, no call in flight
InitServices ==
    /\ apiKey = Null
    /\ openaiClient = Null
    /\ disk = {}
    /\ calls = <<>>
    /\ InitDatabase

\* the clock reading and the stored dates of the request-level model
StatsNow == UTCDate(2024, 3, 15, 10 * MsPerHour)

TreatmentDates ==
    Unusable \cup {DateOnly(2024, 3, 15), NativeDate(UTCDate(2024, 3, 14, 12 * MsPerHour))}

PatientDates ==
    {NativeDate(UTCDate(2024, 3, 15, 9 * MsPerHour)), NativeDate(UTCDate(2024, 3, 14, 9 * MsPerHour))}

StatsQueries == {"", "1d", "1w", "2w", "constructor"}

SeqsUpTo(S, n) == UNION {[1 .. k -> S] : k \in 0 .. n}

-----------------------------------------------------------------------------
(* Specification of the date functions: the zone and the clock are drawn    *)
(* at the start, and one function is applied to one argument.               *)

InitDate ==
    /\ tz \in Zones
    /\ now \in Clock
    /\ range = NoRange
    /\ norm = NoNorm
    /\ patients = <<>>
    /\ treatments = <<>>
    /\ connected = TRUE
    /\ resp = NoResp
    /\ reads = 0
    /\ calc = NoCalc
    /\ req = NoReq
    /\ InitServices

CallGetDateRange ==
    /\ range = NoRange /\ norm = NoNorm
    /\ \E q \in Queries \ {""} : range' = getDateRange(tz, now, q)
    /\ UNCHANGED <<tz, now, norm, patients, treatments, connected, resp, reads, calc, req, serviceVars>>

CallNormalizeDate ==
    /\ range = NoRange /\ norm = NoNorm
    /\ \E raw \in RawDates : norm' = [raw |-> raw, out |-> normalizeDate(tz, raw)]
    /\ UNCHANGED <<tz, now, range, patients, treatments, connected, resp, reads, calc, req, serviceVars>>

NextDate == CallGetDateRange \/ CallNormalizeDate

SpecDate == InitDate /\ [][NextDate]_vars

-----------------------------------------------------------------------------
(* The stats routes that compute their ranges themselves                    *)
(* (routes/treatmentRoutes.ts from line 458), and the specification that     *)
(* calls both getDateRange functions with one clock reading.                *)

\* start, per case of the switch
RouteStart(zone, clock, timeFrame) ==
    CASE timeFrame = "1d" -> setHours[zone, clock, 0]
      [] timeFrame = "1w" -> setHours[zone, setDate[zone, clock, getDate[zone, clock] - 6], 0]
      [] timeFrame = "1m" -> setHours[zone, setMonth[zone, clock, getMonth[zone, clock] - 1], 0]
      [] timeFrame = "6m" -> setHours[zone, setMonth[zone, clock, getMonth[zone, clock] - 6], 0]
      [] timeFrame = "1y" -> setHours[zone, setFullYear[zone, clock, getFullYear[zone, clock] - 1], 0]

\* previousStart = new Date(start), moved back by the frame's length
RoutePreviousStart(zone, timeFrame, start) ==
    CASE timeFrame = "1d" -> setDate[zone, start, getDate[zone, start] - 1]
      [] timeFrame = "1w" -> setDate[zone, start, getDate[zone, start] - 7]
      [] timeFrame = "1m" -> setMonth[zone, start, getMonth[zone, start] - 1]
      [] timeFrame = "6m" -> setMonth[zone, start, getMonth[zone, start] - 6]
      [] timeFrame = "1y" -> setFullYear[zone, start, getFullYear[zone, start] - 1]

\* previousEnd: for '1d' end moved back a day, otherwise the end of the day before start
RoutePreviousEnd(zone, timeFrame, start, end) ==
    IF timeFrame = "1d"
    THEN setDate[zone, end, getDate[zone, end] - 1]
    ELSE setHours[zone, setDate[zone, start, getDate[zone, start] - 1], MsPerDay - 1]

RouteRangeFrom(zone, timeFrame, start, end) ==
    [start |-> start, end |-> end,
     previousStart |-> RoutePreviousStart(zone, timeFrame, start),
     previousEnd   |-> RoutePreviousEnd(zone, timeFrame, start, end)]

\* getDateRange of the routes file, for one of the five time frames
RouteGetDateRange(zone, clock, timeFrame) ==
    RouteRangeFrom(zone, timeFrame, RouteStart(zone, clock, timeFrame), setHours[zone, clock, MsPerDay - 1])

\* the routes' getDateRange, called for the frame and at the clock reading
\* that getDateRange of dateUtils was called with
CallRouteGetDateRange ==
    /\ calc = NoCalc
    /\ range.status = "ok" /\ range.timeFrame \in TimeFrames
    /\ calc' = [route |-> RouteGetDateRange(tz, now, range.timeFrame)]
    /\ UNCHANGED <<tz, now, range, norm, patients, treatments, connected, resp, reads, req, serviceVars>>

NextRoute == CallGetDateRange \/ CallRouteGetDateRange

SpecRoute == InitDate /\ [][NextRoute]_vars

-----------------------------------------------------------------------------
(* Specification of window membership: one record, dated near a bound of    *)
(* the range of a time frame, goes through the filter of the treatments     *)
(* (normalizeDate, isDateInRange) and through the query of the patients.    *)

\* distances of the record's date from a bound of the range
MemberOffsets == {-(12 * MsPerHour), -1, 0, 1, 12 * MsPerHour}

RangeBounds == {"start", "end", "previousStart", "previousEnd"}

\* the two filters of getTreatmentsStats and the two queries of getPatientsStats
\* applied to one record whose date field holds raw (date: its normalizeDate)
MembershipOf(zone, raw, date, r) ==
    [raw           |-> raw,
     inCurrent     |-> date.ok /\ isDateInRange(zone, date.t, r.start, r.end),
     inPrevious    |-> date.ok /\ isDateInRange(zone, date.t, r.previousStart, r.previousEnd),
     foundCurrent  |-> Len(FindCreatedBetween(<<[createdAt |-> raw]>>, r.start, r.end)) = 1,
     foundPrevious |-> Len(FindCreatedBetween(<<[createdAt |-> raw]>>, r.previousStart, r.previousEnd)) = 1]

FilterAgainst(zone, raw, r) ==
    /\ range' = r
    /\ norm' = [raw |-> raw, out |-> normalizeDate(zone, raw)]
    /\ calc' = MembershipOf(zone, raw, normalizeDate(zone, raw), r)

FilterNear(zone, r, bound, delta) == FilterAgainst(zone, NativeDate(AddMs(r[bound], delta)), r)

FilterRecord ==
    /\ calc = NoCalc
    /\ \E q \in TimeFrames, bound \in RangeBounds, delta \in MemberOffsets :
          FilterNear(tz, getDateRange(tz, now, q), bound, delta)
    /\ UNCHANGED <<tz, now, patients, treatments, connected, resp, reads, req, serviceVars>>

NextMember == FilterRecord

SpecMember == InitDate /\ [][NextMember]_vars

-----------------------------------------------------------------------------
(* Specification of the labels: two instants, the first not after the       *)
(* second, are formatted for one grouping interval.                         *)

\* the days the formatted instants start from: two weeks from Monday
\* 2023-12-25, over the end of a month and of a year
LabelDays == 14

LabelFirstDay == DaysFromCivil(2023, 12, 25)

\* formatted instants: three times of each of those days, the hours around
\* the end of daylight saving of 2023 in Rome and in New York, and the turn
\* of the year 999
LabelInstants ==
    {Inst(LabelFirstDay + i, ms) : i \in 0 .. LabelDays - 1, ms \in {0, 12 * MsPerHour, MsPerDay - 1}}
    \cup {UTCDate(2023, 10, 29, MsPerHour \div 2), UTCDate(2023, 10, 29, MsPerHour + MsPerHour \div 2),
          UTCDate(2023, 11, 5, 5 * MsPerHour + MsPerHour \div 2), UTCDate(2023, 11, 5, 6 * MsPerHour + MsPerHour \div 2)}
    \cup {UTCDate(999, 12, 31, 12 * MsPerHour), UTCDate(1000, 1, 1, 12 * MsPerHour)}

GroupingIntervals == {"hour", "day", "week", "month"}

FormatPair ==
    /\ calc = NoCalc
    /\ \E a \in LabelInstants, b \in LabelInstants, interval \in GroupingIntervals :
          /\ AtOrBefore(a, b)
          /\ calc' = [a |-> a, b |-> b, interval |-> interval,
                      labelA |-> formatDateForGrouping(tz, a, interval),
                      labelB |-> formatDateForGrouping(tz, b, interval)]
    /\ UNCHANGED <<tz, now, range, norm, patients, treatments, connected, resp, reads, req, serviceVars>>

NextLabel == FormatPair

InitLabel ==
    /\ tz \in Zones
    /\ now = StatsNow
    /\ range = NoRange
    /\ norm = NoNorm
    /\ patients = <<>>
    /\ treatments = <<>>
    /\ connected = TRUE
    /\ resp = NoResp
    /\ reads = 0
    /\ calc = NoCalc
    /\ req = NoReq
    /\ InitServices

SpecLabel == InitLabel /\ [][NextLabel]_vars

-----------------------------------------------------------------------------
(* Specification of the change computation over pairs of partition sizes *)

InitChange ==
    /\ tz = ZoneUTC
    /\ now = StatsNow
    /\ range = NoRange
    /\ norm = NoNorm
    /\ patients = <<>>
    /\ treatments = <<>>
    /\ connected = TRUE
    /\ resp = NoResp
    /\ reads = 0
    /\ calc = NoCalc
    /\ req = NoReq
    /\ InitServices

ComputeChange ==
    /\ calc = NoCalc
    /\ \E c \in 0 .. MaxCount, p \in 0 .. MaxCount :
          calc' = [totalCurrent |-> c, totalPrevious |-> p, change |-> ChangeOf(c, p)]
    /\ UNCHANGED <<tz, now, range, norm, patients, treatments, connected, resp, reads, req, serviceVars>>

NextChange == ComputeChange

SpecChange == InitChange /\ [][NextChange]_vars

-----------------------------------------------------------------------------
(* Specification of the stats requests over a store.  The store, the zone   *)
(* and the clock are drawn at the start and one request is answered: a      *)
(* request changes nothing that a later request reads.                      *)

Init ==
    /\ tz \in {ZoneRome, ZoneNewYork}
    /\ now = StatsNow
    /\ range = NoRange
    /\ norm = NoNorm
    /\ patients \in SeqsUpTo({[createdAt |-> d] : d \in PatientDates}, MaxPatients)
    /\ treatments \in SeqsUpTo({[date |-> d] : d \in TreatmentDates}, MaxTreatments)
    /\ connected \in BOOLEAN
    /\ resp = NoResp
    /\ reads = 0
    /\ calc = NoCalc
    /\ req = NoReq
    /\ InitServices

\* GET /stats/patients
PatientsRoute ==
    /\ resp = NoResp
    /\ \E q \in StatsQueries : Answer("patients", q, getPatientsStats(tz, now, connected, patients, TimeFrameParam(q)))
    /\ UNCHANGED <<tz, now, range, norm, connected, calc, req, serviceVars>>

\* GET /stats/treatments
TreatmentsRoute ==
    /\ resp = NoResp
    /\ \E q \in StatsQueries : Answer("treatments", q, getTreatmentsStats(tz, now, connected, treatments, TimeFrameParam(q)))
    /\ UNCHANGED <<tz, now, range, norm, connected, calc, req, serviceVars>>

\* GET /stats/overview
OverviewRoute ==
    /\ resp = NoResp
    /\ \E q \in StatsQueries : Answer("overview", q, getOverviewStats(tz, now, connected, patients, treatments, TimeFrameParam(q)))
    /\ UNCHANGED <<tz, now, range, norm, connected, calc, req, serviceVars>>

Next == PatientsRoute \/ TreatmentsRoute \/ OverviewRoute

Spec == Init /\ [][Next]_vars

-----------------------------------------------------------------------------
(* Specification of a stats request step by step.  A service method runs    *)
(* from one await to the next without interruption; while a read is awaited *)
(* the wall clock advances.                                                 *)

\* the clock advances by half a day at a time, up to MaxClockDays days
MaxClockDays == 2

ClockStep == 12 * MsPerHour

ClockQueries == {"1d", "1w", "2w"}

RangeWindow(r, which) ==
    IF which = "current"
    THEN [which |-> which, lo |-> r.start, hi |-> r.end]
    ELSE [which |-> which, lo |-> r.previousStart, hi |-> r.previousEnd]

\* a window computed from the clock where it is used
WindowOf_ReadsClockAgain(zone, clock, timeFrame, r, which) ==
    RangeWindow(getDateRange(zone, clock, timeFrame), which)

\* the window a query or a filter uses: start/end or previousStart/previousEnd
\* of r, the range the method destructured from getDateRange at its start
WindowOf(zone, clock, timeFrame, r, which) == RangeWindow(r, which)

\* the method throws before its first await
EndEarly(op, query, out) ==
    /\ resp' = Respond(op, query, out)
    /\ req' = [pc |-> "done", op |-> op, query |-> query, started |-> now, clockReads |-> 0, used |-> {}]
    /\ UNCHANGED reads

\* the method reaches its first await: r is the range, first the window of
\* the query on the patients that it issues (none for the treatments)
Await(op, query, r, issued, n) ==
    /\ req' = [pc |-> "current", op |-> op, query |-> query, started |-> now, clockReads |-> 1,
               range |-> r, used |-> issued, currentTreatmentsCount |-> 0]
    /\ reads' = n
    /\ UNCHANGED resp

\* lines 14-27, 68-76, 121-133: the collection test, getDateRange (the clock
\* is read at queryBuilder.ts 195, after the test of the time frame) and the
\* first reads
Enter(op, query, r, n) ==
    IF ~connected THEN EndEarly(op, query, DatabaseNotInitialized(0))
    ELSE IF r.status = "throw" THEN EndEarly(op, query, Thrown(r, 0))
    ELSE Await(op, query, r,
               IF op = "treatments" THEN {} ELSE {WindowOf(tz, now, TimeFrameParam(query), r, "current")}, n)

BeginPatients ==
    /\ req = NoReq
    /\ \E q \in ClockQueries : Enter("patients", q, getDateRange(tz, now, TimeFrameParam(q)), 1)
    /\ UNCHANGED <<tz, now, range, norm, patients, treatments, connected, calc, serviceVars>>

BeginTreatments ==
    /\ req = NoReq
    /\ \E q \in ClockQueries : Enter("treatments", q, getDateRange(tz, now, TimeFrameParam(q)), 1)
    /\ UNCHANGED <<tz, now, range, norm, patients, treatments, connected, calc, serviceVars>>

BeginOverview ==
    /\ req = NoReq
    /\ \E q \in ClockQueries : Enter("overview", q, getDateRange(tz, now, TimeFrameParam(q)), 2)
    /\ UNCHANGED <<tz, now, range, norm, patients, treatments, connected, calc, serviceVars>>

\* the window of the request in progress for a query or filter made now
Window(which) == WindowOf(tz, now, TimeFrameParam(req.query), req.range, which)

\* the window recorded when the query on the patients was issued
Issued(which) == CHOOSE w \in req.used : w.which = which

\* line 32: the current patients have arrived, the previous ones are asked for
PatientsFindPrevious ==
    /\ req.pc = "current" /\ req.op = "patients"
    /\ req' = [req EXCEPT !.pc = "previous", !.used = @ \cup {Window("previous")}]
    /\ reads' = reads + 1
    /\ UNCHANGED <<tz, now, range, norm, patients, treatments, connected, resp, calc, serviceVars>>

Done(out) ==
    /\ resp' = Respond(req.op, req.query, out)
    /\ req' = [req EXCEPT !.pc = "done"]

\* lines 40-61
PatientsRespond ==
    /\ req.pc = "previous" /\ req.op = "patients"
    /\ Done(TimeSeries(tz, TimeFrameParam(req.query), getGroupingInterval(TimeFrameParam(req.query)).interval,
                       FindCreatedBetween(patients, Issued("current").lo, Issued("current").hi),
                       FindCreatedBetween(patients, Issued("previous").lo, Issued("previous").hi),
                       "createdAt", reads))
    /\ UNCHANGED <<tz, now, range, norm, patients, treatments, connected, reads, calc, serviceVars>>

FilterWith(cur, prev) ==
    /\ req' = [req EXCEPT !.pc = "done", !.used = @ \cup {cur, prev}]
    /\ resp' = Respond(req.op, req.query,
                       TimeSeries(tz, TimeFrameParam(req.query),
                                  getGroupingInterval(TimeFrameParam(req.query)).interval,
                                  TreatmentsBetween(tz, treatments, cur.lo, cur.hi),
                                  TreatmentsBetween(tz, treatments, prev.lo, prev.hi),
                                  "date", reads))

\* lines 79-114: all treatments have arrived and are filtered
TreatmentsRespond ==
    /\ req.pc = "current" /\ req.op = "treatments"
    /\ FilterWith(Window("current"), Window("previous"))
    /\ UNCHANGED <<tz, now, range, norm, patients, treatments, connected, reads, calc, serviceVars>>

CountWith(cur, prev) ==
    req' = [req EXCEPT !.pc = "previous", !.used = @ \cup {cur, prev},
                       !.currentTreatmentsCount = Len(TreatmentsBetween(tz, treatments, cur.lo, cur.hi))]

\* lines 136-147: the current count and all treatments have arrived; the
\* current treatments are filtered and the previous patients asked for
OverviewCountPrevious ==
    /\ req.pc = "current" /\ req.op = "overview"
    /\ CountWith(Window("current"), Window("previous"))
    /\ reads' = reads + 1
    /\ UNCHANGED <<tz, now, range, norm, patients, treatments, connected, resp, calc, serviceVars>>

RespondWith(prev) ==
    /\ req' = [req EXCEPT !.pc = "done", !.used = @ \cup {prev}]
    /\ resp' = Respond(req.op, req.query,
                       Overview(TimeFrameParam(req.query),
                                Len(FindCreatedBetween(patients, Issued("current").lo, Issued("current").hi)),
                                Len(FindCreatedBetween(patients, Issued("previous").lo, Issued("previous").hi)),
                                req.currentTreatmentsCount,
                                Len(TreatmentsBetween(tz, treatments, prev.lo, prev.hi))))

\* lines 149-175
OverviewRespond ==
    /\ req.pc = "previous" /\ req.op = "overview"
    /\ RespondWith(Window("previous"))
    /\ UNCHANGED <<tz, now, range, norm, patients, treatments, connected, reads, calc, serviceVars>>

\* time passes while a read is awaited
Tick ==
    /\ req.pc \in {"current", "previous"}
    /\ AddMs(now, ClockStep).d < StatsNow.d + MaxClockDays
    /\ now' = AddMs(now, ClockStep)
    /\ UNCHANGED <<tz, range, norm, patients, treatments, connected, resp, reads, calc, req, serviceVars>>

NextClock ==
    \/ BeginPatients \/ BeginTreatments \/ BeginOverview
    \/ PatientsFindPrevious \/ PatientsRespond
    \/ TreatmentsRespond
    \/ OverviewCountPrevious \/ OverviewRespond
    \/ Tick

InitClock ==
    /\ tz \in {ZoneRome, ZoneNewYork}
    /\ now = StatsNow
    /\ range = NoRange
    /\ norm = NoNorm
    /\ patients \in SeqsUpTo({[createdAt |-> d] : d \in PatientDates}, 1)
    /\ treatments \in SeqsUpTo({[date |-> d] : d \in TreatmentDates}, 1)
    /\ connected \in BOOLEAN
    /\ resp = NoResp
    /\ reads = 0
    /\ calc = NoCalc
    /\ req = NoReq
    /\ InitServices

SpecClock == InitClock /\ [][NextClock]_vars

-----------------------------------------------------------------------------
(* The document store as the services use it: a collection is a sequence of *)
(* documents, a treatment is [id, patientId, attachemnts, aiAnalysis,       *)
(* updatedAt], an attachment is [type, data, path] with path the name of    *)
(* the file in the attachments directory, or Null on a legacy attachment.   *)

\* new HTTPError(message, statusCode, errorCode), thrown
HTTPError(message, statusCode, errorCode) ==
    [status |-> "throw", error |-> "HTTPError", statusCode |-> statusCode,
     errorCode |-> errorCode, message |-> message]

\* position of the first document with this id, 0 if there is none
IndexOf(docs, id) ==
    IF \E i \in 1 .. Len(docs) : docs[i].id = id
    THEN CHOOSE i \in 1 .. Len(docs) : docs[i].id = id /\ \A j \in 1 .. i - 1 : docs[j].id # id
    ELSE 0

\* collection.findOne({id: Number(id)})
findOne(docs, id) == IF IndexOf(docs, id) = 0 THEN Null ELSE Some(docs[IndexOf(docs, id)])

\* collection.findOneAndUpdate(query, {$set: set}): the first match takes the fields of set
findOneAndUpdate(docs, id, set) ==
    [i \in 1 .. Len(docs) |-> IF i = IndexOf(docs, id) THEN set @@ docs[i] ELSE docs[i]]

\* collection.findOneAndDelete(query): the first match leaves the collection
findOneAndDelete(docs, id) ==
    [i \in 1 .. Len(docs) - 1 |-> IF i < IndexOf(docs, id) THEN docs[i] ELSE docs[i + 1]]

\* normalizeAttachments: a file attachment without a path gets the path of its name
normalizeAttachments(attachments) ==
    [i \in 1 .. Len(attachments) |->
        IF attachments[i].type = "file" /\ attachments[i].path = Null /\ attachments[i].data # <<>>
        THEN [attachments[i] EXCEPT !.path = Some(attachments[i].data)]
        ELSE attachments[i]]

\* TreatmentService.getTreatmentById, GET /treatments/:id
getTreatmentById(isConnected, docs, id) ==
    IF ~isConnected THEN DatabaseNotInitialized(0)
    ELSE IF findOne(docs, id) = Null THEN HTTPError("Treatment not found", 404, "Not Found")
    ELSE [status |-> "ok",
          value |-> [findOne(docs, id).t EXCEPT !.attachemnts = normalizeAttachments(@)]]

-----------------------------------------------------------------------------
(* services/openai and the analysis route of routes/aiRoutes.  A string of  *)
(* the environment is a sequence of characters; the provider's answer to a  *)
(* completion request is the environment's choice.                          *)

RECURSIVE trimStart(_)
trimStart(s) == IF s # <<>> /\ Head(s) = " " THEN trimStart(Tail(s)) ELSE s

RECURSIVE trimEnd(_)
trimEnd(s) == IF s # <<>> /\ s[Len(s)] = " " THEN trimEnd(SubSeq(s, 1, Len(s) - 1)) ELSE s

\* String.prototype.trim
trim(s) == trimEnd(trimStart(s))

\* getOpenAIClient: the cached client, else a client for the trimmed key, else null
getOpenAIClient(cached, key) ==
    IF cached # Null THEN cached
    ELSE IF key = Null \/ key.t = <<>> \/ trim(key.t) = <<>> THEN Null
    ELSE Some(trim(key.t))

isOpenAIAvailable(cached, key) == getOpenAIClient(cached, key) # Null

\* what client.chat.completions.create comes back with: a completion whose
\* first choice has a content, an empty content or none, or an error with an
\* HTTP status (0: none, a network failure)
ProviderOutcomes ==
    {[kind |-> "completion", content |-> c] : c \in {Some("analysis"), Some(""), Null}}
        \cup {[kind |-> "error", code |-> s] : s \in {401, 403, 429, 500, 0}}

\* generateTreatmentAnalysis, given the client and the provider's answer
generateTreatmentAnalysis(client, outcome) ==
    IF client = Null
    THEN HTTPError("OpenAI API key is not configured", 503, "Service Unavailable")
    ELSE IF outcome.kind = "completion"
    THEN IF outcome.content = Null \/ outcome.content.t = ""
         THEN HTTPError("Failed to generate AI analysis", 500, "AI Generation Error")
         ELSE [status |-> "ok", value |-> outcome.content.t]
    ELSE IF outcome.code \in {401, 403}
    THEN HTTPError("Invalid OpenAI API key", 503, "Service Unavailable")
    ELSE IF outcome.code = 429
    THEN HTTPError("OpenAI API rate limit exceeded", 429, "Rate Limit Exceeded")
    ELSE HTTPError("Failed to generate AI analysis: error", 500, "AI Generation Error")

\* the analysis request between two awaits: the store operations it has
\* issued, the analysis it holds and the instant of its `new Date()`
AnalyzeAt(pc, id, n, analysis, at) ==
    [pc |-> pc, op |-> "analyze", id |-> id, reads |-> n, analysis |-> analysis, at |-> at,
     wrote |-> FALSE]

\* a failure that also clears the stored analysis
AnalyzeEnd_ClearsAnalysis(id, n, err) ==
    /\ resp' = Respond("analyze", id, err)
    /\ req' = [AnalyzeAt("done", id, n, Null, Null) EXCEPT !.wrote = IndexOf(treatments, id) # 0]
    /\ treatments' = findOneAndUpdate(treatments, id, [aiAnalysis |-> Null, updatedAt |-> now])

\* the handler throws: the error handler answers, the store is not written
AnalyzeEnd(id, n, err) ==
    /\ resp' = Respond("analyze", id, err)
    /\ req' = AnalyzeAt("done", id, n, Null, Null)
    /\ UNCHANGED treatments

AnalyzeAwait(pc, id, n, analysis, at) ==
    /\ req' = AnalyzeAt(pc, id, n, analysis, at)
    /\ UNCHANGED <<resp, treatments>>

\* a handler that looks the treatment up before it tests the key
AnalyzeEnter_KeyTestAfterFind(id, isConnected, client) ==
    IF ~isConnected THEN AnalyzeEnd(id, 0, DatabaseNotInitialized(0))
    ELSE AnalyzeAwait("findOne", id, 1, Null, Null)

\* lines 15-35: the collection test, the key test, the first findOne
AnalyzeEnter(id, isConnected, client) ==
    IF ~isConnected THEN AnalyzeEnd(id, 0, DatabaseNotInitialized(0))
    ELSE IF client = Null
    THEN AnalyzeEnd(id, 0, HTTPError("OpenAI API key is not configured", 503, "Service Unavailable"))
    ELSE AnalyzeAwait("findOne", id, 1, Null, Null)

TreatmentIds == {1, 2}

AnalyzeBegin ==
    /\ req.pc \in {"idle", "done"}
    /\ \E id \in TreatmentIds : AnalyzeEnter(id, connected, getOpenAIClient(openaiClient, apiKey))
    /\ openaiClient' = IF connected THEN getOpenAIClient(openaiClient, apiKey) ELSE openaiClient
    /\ UNCHANGED <<tz, now, range, norm, patients, connected, reads, calc, apiKey, disk, calls, database, clients>>

\* lines 31-48: the treatment is back; its patient is looked up if it names one
AnalyzeFind ==
    /\ req.pc = "findOne"
    /\ IF findOne(treatments, req.id) = Null
       THEN AnalyzeEnd(req.id, req.reads, HTTPError("Treatment not found", 404, "Not Found"))
       ELSE IF connected /\ findOne(treatments, req.id).t.patientId # 0
       THEN AnalyzeAwait("patient", req.id, req.reads + 1, Null, Null)
       ELSE AnalyzeAwait("generate", req.id, req.reads, Null, Null)
    /\ UNCHANGED <<tz, now, range, norm, patients, connected, reads, calc, serviceVars>>

\* lines 44-51: the patient is back, the completion is requested
AnalyzePatient ==
    /\ req.pc = "patient"
    /\ AnalyzeAwait("generate", req.id, req.reads, Null, Null)
    /\ UNCHANGED <<tz, now, range, norm, patients, connected, reads, calc, serviceVars>>

\* lines 51-65: the analysis is back or generateTreatmentAnalysis has thrown;
\* the update is issued with the `new Date()` of this moment
AnalyzeComplete ==
    /\ req.pc = "generate"
    /\ \E o \in ProviderOutcomes :
          IF generateTreatmentAnalysis(openaiClient, o).status = "throw"
          THEN AnalyzeEnd(req.id, req.reads, generateTreatmentAnalysis(openaiClient, o))
          ELSE AnalyzeAwait("update", req.id, req.reads,
                            Some(generateTreatmentAnalysis(openaiClient, o).value), now)
    /\ UNCHANGED <<tz, now, range, norm, patients, connected, reads, calc, serviceVars>>

\* lines 54-78: findOneAndUpdate has run: the analysis is stored, or no
\* document matched any more
AnalyzeUpdate ==
    /\ req.pc = "update"
    /\ IF IndexOf(treatments, req.id) = 0
       THEN AnalyzeEnd(req.id, req.reads,
                       HTTPError("Failed to update treatment with AI analysis", 500, "Database Error"))
       ELSE /\ treatments' = findOneAndUpdate(treatments, req.id,
                                 [aiAnalysis |-> req.analysis, updatedAt |-> req.at])
            /\ resp' = [op |-> "analyze", query |-> req.id, status |-> 200,
                        data |-> [treatment |-> findOne(treatments', req.id).t,
                                  analysis |-> req.analysis.t]]
            /\ req' = [req EXCEPT !.pc = "done", !.wrote = TRUE]
    /\ UNCHANGED <<tz, now, range, norm, patients, connected, reads, calc, serviceVars>>

\* GET /treatments/:id, a request that does not use the AI service
GetTreatment ==
    /\ \E id \in TreatmentIds :
          resp' = Respond("getTreatment", id, getTreatmentById(connected, treatments, id))
    /\ UNCHANGED <<tz, now, range, norm, patients, treatments, connected, reads, calc, req, serviceVars>>

\* another request's findOneAndDelete takes a treatment out of the store
TreatmentDeleted ==
    /\ \E id \in TreatmentIds :
          /\ IndexOf(treatments, id) # 0
          /\ treatments' = findOneAndDelete(treatments, id)
    /\ UNCHANGED <<tz, now, range, norm, patients, connected, resp, reads, calc, req, serviceVars>>

\* the clock moves on while a request is in flight
AnalyzeTick ==
    /\ req.pc \in {"findOne", "generate"}
    /\ now = StatsNow
    /\ now' = AddMs(now, ClockStep)
    /\ UNCHANGED <<tz, range, norm, patients, treatments, connected, resp, reads, calc, req, serviceVars>>

NextAI ==
    \/ AnalyzeBegin \/ AnalyzeFind \/ AnalyzePatient \/ AnalyzeComplete \/ AnalyzeUpdate
    \/ GetTreatment \/ TreatmentDeleted \/ AnalyzeTick

\* the keys of the environment: unset, empty, blank, and two keys
ApiKeys == {Null, Some(<<>>), Some(<<" ">>), Some(<<"k">>), Some(<<" ", "k", " ">>)}

\* a treatment of the store before any analysis request
StoredTreatment(id, patientId, analysis) ==
    [id |-> id, patientId |-> patientId, attachemnts |-> <<>>, aiAnalysis |-> analysis,
     updatedAt |-> AddMs(StatsNow, -MsPerHour)]

InitAI ==
    /\ tz = ZoneRome
    /\ now = StatsNow
    /\ range = NoRange
    /\ norm = NoNorm
    /\ patients = <<[id |-> 1]>>
    /\ treatments \in {<<>>} \cup
          {<<StoredTreatment(1, p, a)>> : p \in {0, 1}, a \in {Null, Some("earlier")}}
    /\ connected \in BOOLEAN
    /\ resp = NoResp
    /\ reads = 0
    /\ calc = NoCalc
    /\ req = NoReq
    /\ apiKey \in ApiKeys
    /\ openaiClient = Null
    /\ disk = {}
    /\ calls = <<>>
    /\ InitDatabase

SpecAI == InitAI /\ [][NextAI]_vars

-----------------------------------------------------------------------------
(* services/treatmentService and utils/fileHandler: uploads and deletions,  *)
(* each call run from await to await.  A file name is a string (a sequence  *)
(* of characters); the attachments directory is the set of the names of its *)
(* files, and a path is the name of the file it leads to.                   *)

\* the result of a call that has not returned, and of one that returned a value
NoOut == [status |-> "pending"]
Ok(value) == [status |-> "ok", value |-> value]

\* a service method is entered (lines 125-130, 174-178, 200-204): the
\* collection test, then the findOne that it awaits
NewCall(op, id, arg, isConnected) ==
    [op |-> op, id |-> id, arg |-> arg, seen |-> <<>>, todo |-> <<>>, made |-> <<>>,
     pc  |-> IF isConnected THEN "findOne" ELSE "done",
     out |-> IF isConnected THEN NoOut ELSE DatabaseNotInitialized(0)]

\* the method throws
Throw(call, err) == [call EXCEPT !.pc = "done", !.out = err]

TreatmentNotFound == HTTPError("Treatment not found", 404, "Not Found")

\* generateFileName: `${Date.now()}-${random}-${originalName}`, a different
\* name for every file of every call
generateFileName(c, n) == <<"u", DigitChar[c + 1], DigitChar[n + 1]>>

\* the attachment uploadFiles builds for a saved file (lines 140-145)
FileAttachment(fileName) == [type |-> "file", data |-> fileName, path |-> Some(fileName)]

\* attachment.path || join(ATTACHMENTS_DIR, attachment.data)
PathOf(attachment) == IF attachment.path # Null THEN attachment.path.t ELSE attachment.data

\* deleteAttachmentFiles for one attachment: the file of a 'file' attachment is
\* unlinked if it exists
deleteAttachmentFile(files, attachment) ==
    IF attachment.type = "file" THEN files \ {PathOf(attachment)} ELSE files

\* a filter that goes by the name alone
WithoutAttachment_AnyType(attachments, attachmentName) ==
    SelectSeq(attachments, LAMBDA att : att.data # attachmentName)

\* attachemnts.filter(att => !(att.type === 'file' && att.data === attachmentName))
WithoutAttachment(attachments, attachmentName) ==
    SelectSeq(attachments, LAMBDA att : ~(att.type = "file" /\ att.data = attachmentName))

\* most calls of a behaviour, most files of an upload
MaxCalls == 2
MaxFiles == 1

\* uploadFiles(treatmentId, files), lines 124-130
UploadBegin ==
    /\ Len(calls) < MaxCalls
    /\ \E id \in TreatmentIds, k \in 0 .. MaxFiles :
          calls' = Append(calls, NewCall("uploadFiles", id, k, connected))
    /\ UNCHANGED <<tz, now, range, norm, patients, treatments, connected, resp, reads, calc, req,
                   apiKey, openaiClient, disk, database, clients>>

\* lines 130-138: the treatment is back
UploadFound(c) ==
    /\ calls[c].op = "uploadFiles" /\ calls[c].pc = "findOne"
    /\ calls' = [calls EXCEPT ![c] =
          IF findOne(treatments, calls[c].id) = Null THEN Throw(calls[c], TreatmentNotFound)
          ELSE [calls[c] EXCEPT !.seen = findOne(treatments, calls[c].id).t.attachemnts,
                                !.pc = IF calls[c].arg = 0 THEN "update" ELSE "saveFile"]]
    /\ UNCHANGED <<tz, now, range, norm, patients, treatments, connected, resp, reads, calc, req,
                   apiKey, openaiClient, disk, database, clients>>

\* lines 138-146 and saveFile: the next file is written and its attachment kept
UploadSave(c) ==
    /\ calls[c].op = "uploadFiles" /\ calls[c].pc = "saveFile"
    /\ disk' = disk \cup {generateFileName(c, Len(calls[c].made) + 1)}
    /\ calls' = [calls EXCEPT ![c] =
          [calls[c] EXCEPT !.made = Append(@, FileAttachment(generateFileName(c, Len(@) + 1))),
                           !.pc = IF Len(calls[c].made) + 1 = calls[c].arg THEN "update" ELSE "saveFile"]]
    /\ UNCHANGED <<tz, now, range, norm, patients, treatments, connected, resp, reads, calc, req,
                   apiKey, openaiClient, database, clients>>

\* lines 149-167: the list that was read, with the new attachments behind
\* it, replaces the stored list; no document may match any more
UploadUpdate(c) ==
    /\ calls[c].op = "uploadFiles" /\ calls[c].pc = "update"
    /\ IF IndexOf(treatments, calls[c].id) = 0
       THEN /\ calls' = [calls EXCEPT ![c] = Throw(calls[c], TreatmentNotFound)]
            /\ UNCHANGED treatments
       ELSE /\ treatments' = findOneAndUpdate(treatments, calls[c].id,
                                 [attachemnts |-> calls[c].seen \o calls[c].made, updatedAt |-> now])
            /\ calls' = [calls EXCEPT ![c] = [calls[c] EXCEPT !.pc = "done", !.out = Ok(calls[c].made)]]
    /\ UNCHANGED <<tz, now, range, norm, patients, connected, resp, reads, calc, req,
                   apiKey, openaiClient, disk, database, clients>>

\* deleteTreatment(id), lines 173-178
DeleteBegin ==
    /\ Len(calls) < MaxCalls
    /\ \E id \in TreatmentIds : calls' = Append(calls, NewCall("deleteTreatment", id, 0, connected))
    /\ UNCHANGED <<tz, now, range, norm, patients, treatments, connected, resp, reads, calc, req,
                   apiKey, openaiClient, disk, database, clients>>

\* lines 178-187: the treatment is back, its attachments are to be unlinked
DeleteFound(c) ==
    /\ calls[c].op = "deleteTreatment" /\ calls[c].pc = "findOne"
    /\ calls' = [calls EXCEPT ![c] =
          IF findOne(treatments, calls[c].id) = Null THEN Throw(calls[c], TreatmentNotFound)
          ELSE [calls[c] EXCEPT !.seen = findOne(treatments, calls[c].id).t.attachemnts,
                                !.todo = findOne(treatments, calls[c].id).t.attachemnts,
                                !.pc = IF findOne(treatments, calls[c].id).t.attachemnts = <<>>
                                       THEN "remove" ELSE "unlink"]]
    /\ UNCHANGED <<tz, now, range, norm, patients, treatments, connected, resp, reads, calc, req,
                   apiKey, openaiClient, disk, database, clients>>

\* deleteAttachmentFiles, one turn of its loop; deleteTreatment goes on to
\* findOneAndDelete, deleteAttachment to findOneAndUpdate
Unlink(c) ==
    /\ calls[c].pc = "unlink"
    /\ disk' = deleteAttachmentFile(disk, Head(calls[c].todo))
    /\ calls' = [calls EXCEPT ![c] =
          [calls[c] EXCEPT !.todo = Tail(@),
                           !.pc = IF Len(calls[c].todo) > 1 THEN "unlink"
                                  ELSE IF calls[c].op = "deleteTreatment" THEN "remove" ELSE "update"]]
    /\ UNCHANGED <<tz, now, range, norm, patients, treatments, connected, resp, reads, calc, req,
                   apiKey, openaiClient, database, clients>>

\* lines 189-193: findOneAndDelete has run
DeleteRemove(c) ==
    /\ calls[c].op = "deleteTreatment" /\ calls[c].pc = "remove"
    /\ IF IndexOf(treatments, calls[c].id) = 0
       THEN /\ calls' = [calls EXCEPT ![c] = Throw(calls[c], TreatmentNotFound)]
            /\ UNCHANGED treatments
       ELSE /\ treatments' = findOneAndDelete(treatments, calls[c].id)
            /\ calls' = [calls EXCEPT ![c] = [calls[c] EXCEPT !.pc = "done", !.out = Ok(0)]]
    /\ UNCHANGED <<tz, now, range, norm, patients, connected, resp, reads, calc, req,
                   apiKey, openaiClient, disk, database, clients>>

NextFiles ==
    \/ UploadBegin \/ DeleteBegin
    \/ \E c \in DOMAIN calls : UploadFound(c)
    \/ \E c \in DOMAIN calls : UploadSave(c)
    \/ \E c \in DOMAIN calls : UploadUpdate(c)
    \/ \E c \in DOMAIN calls : DeleteFound(c)
    \/ \E c \in DOMAIN calls : Unlink(c)
    \/ \E c \in DOMAIN calls : DeleteRemove(c)

\* a treatment with the attachments it has when the calls begin
TreatmentWith(id, attachments) ==
    [id |-> id, patientId |-> 1, attachemnts |-> attachments, aiAnalysis |-> Null,
     updatedAt |-> AddMs(StatsNow, -MsPerHour)]

\* the files on disk that a list of attachments refers to
FilesOf(attachments) ==
    {PathOf(attachments[i]) : i \in {j \in DOMAIN attachments : attachments[j].type = "file"}}

InitFilesWith(lists) ==
    /\ tz = ZoneRome
    /\ now = StatsNow
    /\ range = NoRange
    /\ norm = NoNorm
    /\ patients = <<>>
    /\ \E attachments \in lists :
          /\ treatments = <<TreatmentWith(1, attachments)>>
          /\ disk = FilesOf(attachments)
    /\ connected \in BOOLEAN
    /\ resp = NoResp
    /\ reads = 0
    /\ calc = NoCalc
    /\ req = NoReq
    /\ apiKey = Null
    /\ openaiClient = Null
    /\ calls = <<>>
    /\ InitDatabase

InitFiles == InitFilesWith({<<>>, <<FileAttachment(<<"a">>)>>})

SpecFiles == InitFiles /\ [][NextFiles]_vars

-----------------------------------------------------------------------------
(* TreatmentService.deleteAttachment, one call at a time, on a treatment    *)
(* with up to three attachments.                                            *)

AttachmentNames == {<<"a">>, <<"b">>}

\* deleteAttachment(treatmentId, attachmentName), lines 199-204
DeleteAttachmentBegin ==
    /\ Len(calls) < MaxCalls
    /\ \E id \in TreatmentIds, attachmentName \in AttachmentNames :
          calls' = Append(calls, NewCall("deleteAttachment", id, attachmentName, connected))
    /\ UNCHANGED <<tz, now, range, norm, patients, treatments, connected, resp, reads, calc, req,
                   apiKey, openaiClient, disk, database, clients>>

\* the attachments deleteAttachment unlinks: the first 'file' attachment of
\* that name, if there is one (lines 211-223)
FirstNamed(attachments, attachmentName) ==
    IF \A i \in DOMAIN attachments : ~(attachments[i].type = "file" /\ attachments[i].data = attachmentName)
    THEN <<>>
    ELSE <<Head(SelectSeq(attachments, LAMBDA att : att.type = "file" /\ att.data = attachmentName))>>

\* lines 204-223: the treatment is back
DeleteAttachmentFound(c) ==
    /\ calls[c].op = "deleteAttachment" /\ calls[c].pc = "findOne"
    /\ calls' = [calls EXCEPT ![c] =
          IF findOne(treatments, calls[c].id) = Null THEN Throw(calls[c], TreatmentNotFound)
          ELSE [calls[c] EXCEPT
                  !.seen = findOne(treatments, calls[c].id).t.attachemnts,
                  !.todo = FirstNamed(findOne(treatments, calls[c].id).t.attachemnts, calls[c].arg),
                  !.pc = IF FirstNamed(findOne(treatments, calls[c].id).t.attachemnts, calls[c].arg) = <<>>
                         THEN "update" ELSE "unlink"]]
    /\ UNCHANGED <<tz, now, range, norm, patients, treatments, connected, resp, reads, calc, req,
                   apiKey, openaiClient, disk, database, clients>>

\* lines 226-246: the filtered list replaces the stored list
DeleteAttachmentUpdate(c) ==
    /\ calls[c].op = "deleteAttachment" /\ calls[c].pc = "update"
    /\ IF IndexOf(treatments, calls[c].id) = 0
       THEN /\ calls' = [calls EXCEPT ![c] = Throw(calls[c], TreatmentNotFound)]
            /\ UNCHANGED treatments
       ELSE /\ treatments' = findOneAndUpdate(treatments, calls[c].id,
                                 [attachemnts |-> WithoutAttachment(calls[c].seen, calls[c].arg),
                                  updatedAt |-> now])
            /\ calls' = [calls EXCEPT ![c] =
                  [calls[c] EXCEPT !.pc = "done",
                                   !.out = Ok(normalizeAttachments(WithoutAttachment(calls[c].seen, calls[c].arg)))]]
    /\ UNCHANGED <<tz, now, range, norm, patients, connected, resp, reads, calc, req,
                   apiKey, openaiClient, disk, database, clients>>

NextAttachment ==
    \/ (\A c \in DOMAIN calls : calls[c].pc = "done") /\ DeleteAttachmentBegin
    \/ \E c \in DOMAIN calls : DeleteAttachmentFound(c)
    \/ \E c \in DOMAIN calls : Unlink(c)
    \/ \E c \in DOMAIN calls : DeleteAttachmentUpdate(c)

\* attachments of the stored treatment: files with their path, a legacy file
\* without, a text whose data is the name of a file
StoredAttachmentValues ==
    {FileAttachment(<<"a">>), FileAttachment(<<"b">>),
     [type |-> "file", data |-> <<"a">>, path |-> Null],
     [type |-> "text", data |-> <<"a">>, path |-> Null]}

MaxAttachments == 3

InitAttachment == InitFilesWith(SeqsUpTo(StoredAttachmentValues, MaxAttachments))

SpecAttachment == InitAttachment /\ [][NextAttachment]_vars

-----------------------------------------------------------------------------
(* TreatmentService.createTreatment and PatientService.createPatient, each  *)
(* call run from await to await.  A created document carries the _id that   *)
(* insertOne gave it, here the number of the call.                          *)

CreateOps == {"createTreatment", "createPatient"}

\* the collection a create method works on
CollectionOf(op) == IF op = "createTreatment" THEN treatments ELSE patients

\* newTreatment / newPatient (lines 61-69, 315-328) with the _id of insertOne
NewDocument(op, c, id) ==
    IF op = "createTreatment" THEN [_id |-> c] @@ TreatmentWith(id, <<>>)
    ELSE [_id |-> c, id |-> id, createdAt |-> NativeDate(now)]

\* insertOne on a collection with a unique index on id, when the id is taken:
\* the driver's duplicate key error, which is not an HTTPError
DuplicateKey == [status |-> "throw", error |-> "MongoServerError", message |-> "E11000 duplicate key error"]

\* createTreatment(data) / createPatient(data), lines 47-55 and 303-309
CreateBegin ==
    /\ Len(calls) < MaxCalls
    /\ \E op \in CreateOps, id \in TreatmentIds : calls' = Append(calls, NewCall(op, id, 0, connected))
    /\ UNCHANGED <<tz, now, range, norm, patients, treatments, connected, resp, reads, calc, req,
                   apiKey, openaiClient, disk, database, clients>>

\* lines 55-71 and 309-330: the findOne for the id is back
CreateChecked(c) ==
    /\ calls[c].op \in CreateOps /\ calls[c].pc = "findOne"
    /\ calls' = [calls EXCEPT ![c] =
          IF findOne(CollectionOf(calls[c].op), calls[c].id) # Null
          THEN Throw(calls[c], HTTPError("ID already exists", 409, "Conflict"))
          ELSE [calls[c] EXCEPT !.pc = "insertOne"]]
    /\ UNCHANGED <<tz, now, range, norm, patients, treatments, connected, resp, reads, calc, req,
                   apiKey, openaiClient, disk, database, clients>>

\* lines 71 and 330: insertOne has run; with the unique index on id
\* (database.ts 56, 62) a taken id makes it throw
CreateInsert(c, op, indexed) ==
    /\ calls[c].op = op /\ calls[c].pc = "insertOne"
    /\ IF indexed /\ IndexOf(CollectionOf(op), calls[c].id) # 0
       THEN /\ calls' = [calls EXCEPT ![c] = Throw(calls[c], DuplicateKey)]
            /\ UNCHANGED <<patients, treatments>>
       ELSE /\ calls' = [calls EXCEPT ![c] = [calls[c] EXCEPT !.pc = "reload"]]
            /\ IF op = "createTreatment"
               THEN treatments' = Append(treatments, NewDocument(op, c, calls[c].id)) /\ UNCHANGED patients
               ELSE patients' = Append(patients, NewDocument(op, c, calls[c].id)) /\ UNCHANGED treatments
    /\ UNCHANGED <<tz, now, range, norm, connected, resp, reads, calc, req,
                   apiKey, openaiClient, disk, database, clients>>

\* lines 72-78 and 331-337: the findOne for the inserted _id is back
CreateReload(c) ==
    /\ calls[c].op \in CreateOps /\ calls[c].pc = "reload"
    /\ calls' = [calls EXCEPT ![c] =
          IF \E i \in DOMAIN CollectionOf(calls[c].op) : CollectionOf(calls[c].op)[i]._id = c
          THEN [calls[c] EXCEPT !.pc = "done", !.out = Ok(c)]
          ELSE Throw(calls[c], HTTPError("Failed to create", 500, "Server Error"))]
    /\ UNCHANGED <<tz, now, range, norm, patients, treatments, connected, resp, reads, calc, req,
                   apiKey, openaiClient, disk, database, clients>>

NextCreate ==
    \/ CreateBegin
    \/ \E c \in DOMAIN calls : CreateChecked(c)
    \/ \E c \in DOMAIN calls : CreateInsert(c, "createTreatment", database.indexes)
    \/ \E c \in DOMAIN calls : CreateInsert(c, "createPatient", database.indexes)
    \/ \E c \in DOMAIN calls : CreateReload(c)

\* the collections are initialized; the unique indexes exist, or createIndexes
\* has not got to them or has failed (database.ts 71-74); treatment 1 may be
\* stored already
InitCreate ==
    /\ tz = ZoneRome
    /\ now = StatsNow
    /\ range = NoRange
    /\ norm = NoNorm
    /\ patients = <<>>
    /\ treatments \in {<<>>, <<[_id |-> 0] @@ TreatmentWith(1, <<>>)>>}
    /\ connected = TRUE
    /\ resp = NoResp
    /\ reads = 0
    /\ calc = NoCalc
    /\ req = NoReq
    /\ apiKey = Null
    /\ openaiClient = Null
    /\ disk = {}
    /\ calls = <<>>
    /\ database \in {[OpenDatabase(1) EXCEPT !.indexes = b] : b \in BOOLEAN}
    /\ clients = <<"connected">>

SpecCreate == InitCreate /\ [][NextCreate]_vars

-----------------------------------------------------------------------------
(* database.ts: connectDatabase and closeDatabase, each call run from await *)
(* to await.  clients[k] is the state of the k-th MongoClient object: new   *)
(* (its connect is awaited), connected, failed or closed.  Whether a        *)
(* connect, a close or the creation of the indexes succeeds is the          *)
(* environment's choice.                                                    *)

DatabaseCall(op, pc, k, out) ==
    [op |-> op, id |-> 0, arg |-> k, seen |-> <<>>, todo |-> <<>>, made |-> <<>>, pc |-> pc, out |-> out]

\* an error of the driver or of the runtime, rethrown by the catch block
Rethrown(name) == [status |-> "throw", error |-> name, message |-> name]

\* the number of connectDatabase and closeDatabase calls of one run
MaxDatabaseCalls == 3

\* isConnected(), lines 110-112
isConnected == database.client # Null /\ database.db # Null

\* connectDatabase, lines 20-28: return if connected, else a new client
\* replaces the module's one and its connect is awaited
ConnectBegin ==
    /\ Len(calls) < MaxDatabaseCalls
    /\ IF isConnected
       THEN /\ calls' = Append(calls, DatabaseCall("connectDatabase", "done", 0, Ok(0)))
            /\ UNCHANGED <<database, clients>>
       ELSE /\ clients' = Append(clients, "new")
            /\ database' = [database EXCEPT !.client = Some(Len(clients) + 1)]
            /\ calls' = Append(calls, DatabaseCall("connectDatabase", "connect", Len(clients) + 1, NoOut))
    /\ UNCHANGED <<tz, now, range, norm, patients, treatments, connected, resp, reads, calc, req,
                   apiKey, openaiClient, disk>>

\* lines 28-38: connect has failed (the error is logged and rethrown) or
\* succeeded: db and the collections are taken from the module's client of
\* this moment, which may be another one or null, and createIndexes is awaited
ConnectResume(c, ok) ==
    /\ calls[c].op = "connectDatabase" /\ calls[c].pc = "connect"
    /\ clients' = [clients EXCEPT ![calls[c].arg] =
                      IF @ = "closed" THEN @ ELSE IF ok THEN "connected" ELSE "failed"]
    /\ IF ~ok
       THEN /\ calls' = [calls EXCEPT ![c] = Throw(calls[c], Rethrown("MongoNetworkError"))]
            /\ UNCHANGED <<database, connected>>
       ELSE IF database.client = Null
       THEN /\ calls' = [calls EXCEPT ![c] = Throw(calls[c], Rethrown("TypeError"))]
            /\ UNCHANGED <<database, connected>>
       ELSE /\ database' = [OpenDatabase(database.client.t) EXCEPT !.indexes = database.indexes]
            /\ connected' = TRUE
            /\ calls' = [calls EXCEPT ![c] = [calls[c] EXCEPT !.pc = "createIndexes"]]
    /\ UNCHANGED <<tz, now, range, norm, patients, treatments, resp, reads, calc, req,
                   apiKey, openaiClient, disk>>

\* lines 38-41 and createIndexes: nothing without db; a failure is logged
\* and swallowed
ConnectIndexed(c, ok) ==
    /\ calls[c].op = "connectDatabase" /\ calls[c].pc = "createIndexes"
    /\ database' = [database EXCEPT !.indexes = @ \/ (ok /\ database.db # Null)]
    /\ calls' = [calls EXCEPT ![c] = [calls[c] EXCEPT !.pc = "done", !.out = Ok(0)]]
    /\ UNCHANGED <<tz, now, range, norm, patients, treatments, connected, resp, reads, calc, req,
                   apiKey, openaiClient, disk, clients>>

\* closeDatabase, lines 80-83: nothing without a client, else its close is awaited
CloseBegin ==
    /\ Len(calls) < MaxDatabaseCalls
    /\ calls' = Append(calls,
          IF database.client = Null THEN DatabaseCall("closeDatabase", "done", 0, Ok(0))
          ELSE DatabaseCall("closeDatabase", "close", database.client.t, NoOut))
    /\ UNCHANGED <<tz, now, range, norm, patients, treatments, connected, resp, reads, calc, req,
                   apiKey, openaiClient, disk, database, clients>>

\* lines 83-94: close has failed (logged and rethrown) or succeeded: the
\* module's client, db and collections are set to null
CloseResume(c, ok) ==
    /\ calls[c].op = "closeDatabase" /\ calls[c].pc = "close"
    /\ IF ~ok
       THEN /\ calls' = [calls EXCEPT ![c] = Throw(calls[c], Rethrown("MongoError"))]
            /\ UNCHANGED <<database, clients, connected>>
       ELSE /\ clients' = [clients EXCEPT ![calls[c].arg] = "closed"]
            /\ database' = [NoDatabase EXCEPT !.indexes = database.indexes]
            /\ connected' = FALSE
            /\ calls' = [calls EXCEPT ![c] = [calls[c] EXCEPT !.pc = "done", !.out = Ok(0)]]
    /\ UNCHANGED <<tz, now, range, norm, patients, treatments, resp, reads, calc, req,
                   apiKey, openaiClient, disk>>

NextConnect ==
    \/ ConnectBegin
    \/ \E c \in DOMAIN calls, ok \in BOOLEAN : ConnectResume(c, ok)
    \/ \E c \in DOMAIN calls, ok \in BOOLEAN : ConnectIndexed(c, ok)
    \/ CloseBegin
    \/ \E c \in DOMAIN calls, ok \in BOOLEAN : CloseResume(c, ok)

\* the process starts: the module is loaded, nothing is connected
InitConnect ==
    /\ tz = ZoneRome
    /\ now = StatsNow
    /\ range = NoRange
    /\ norm = NoNorm
    /\ patients = <<>>
    /\ treatments = <<>>
    /\ connected = FALSE
    /\ resp = NoResp
    /\ reads = 0
    /\ calc = NoCalc
    /\ req = NoReq
    /\ InitServices

SpecConnect == InitConnect /\ [][NextConnect]_vars

-----------------------------------------------------------------------------
(* Properties *)

\* the local calendar day (as a day number) and the local reading of an instant
LocalDay(t) == LocalTime[tz, t].d
StartOfLocalDay(day) == Inst(day, 0)
EndOfLocalDay(day) == Inst(day, MsPerDay - 1)

RangeOfFrame == range.status = "ok" /\ range.timeFrame \in TimeFrames

\* C1: for each of the five time frames and every clock reading, the range of
\* getDateRange has previousStart <= previousEnd < start <= end.
C1_WindowsOrdered ==
    RangeOfFrame =>
        /\ AtOrBefore(range.previousStart, range.previousEnd)
        /\ Before(range.previousEnd, range.start)
        /\ AtOrBefore(range.start, range.end)

C1_Witness == RangeOfFrame /\ range.timeFrame = "6m" /\ tz = ZoneRome

\* C2: the previous window covers exactly as many whole local calendar days as
\* the current window and ends on the day right before start.
C2_PreviousWindowSameLength ==
    RangeOfFrame =>
        /\ LocalTime[tz, range.previousStart] = StartOfLocalDay(LocalDay(range.previousStart))
        /\ LocalTime[tz, range.previousEnd] = EndOfLocalDay(LocalDay(range.start) - 1)
        /\ LocalDay(range.previousEnd) - LocalDay(range.previousStart)
              = LocalDay(range.end) - LocalDay(range.start)

\* C3: for a day frame of N days (1d: 1, 1w: 7) start is 00:00:00.000 of the
\* local day N - 1 days before the clock's and end is 23:59:59.999 of the
\* clock's local day.
DayFrameLength == [tf \in {"1d", "1w"} |-> IF tf = "1d" THEN 1 ELSE 7]

MonthsBack == [tf \in {"1m", "6m", "1y"} |-> CASE tf = "1m" -> 1 [] tf = "6m" -> 6 [] tf = "1y" -> 12]

\* the number of days of month index mi (year * 12 + zero-based month)
DaysInMonth(mi) == MakeDay(0, mi + 1, 1) - MakeDay(0, mi, 1)

MonthIndex(day) == CivilFromDays(day).year * 12 + CivilFromDays(day).month - 1

C4_ClampedToMonthEnd ==
    (range.status = "ok" /\ range.timeFrame \in DOMAIN MonthsBack) =>
        LET target == MonthIndex(LocalDay(now)) - MonthsBack[range.timeFrame]
        IN  CivilFromDays(LocalDay(now)).date > DaysInMonth(target) =>
                LocalTime[tz, range.start] = StartOfLocalDay(MakeDay(0, target, DaysInMonth(target)))

\* C5: normalizeDate of a date-only string 'YYYY-MM-DD' is local 00:00:00.000
\* of the calendar date YYYY-MM-DD, in every zone.
C5_DateOnlyIsLocalMidnight ==
    (norm.raw.kind = "date-only") =>
        /\ norm.out.ok
        /\ LocalTime[tz, norm.out.t]
              = StartOfLocalDay(DaysFromCivil(norm.raw.year, norm.raw.month, norm.raw.date))

\* the (current, previous, change) triples of a successful response
Triples ==
    IF resp.op \in {"patients", "treatments"} /\ resp.status = 200
    THEN {<<resp.data.current.total, resp.data.previous.total, resp.data.change>>}
    ELSE IF resp.op = "overview" /\ resp.status = 200
    THEN {<<resp.data.patients.current, resp.data.patients.previous, resp.data.patients.change>>,
          <<resp.data.treatments.current, resp.data.treatments.previous, resp.data.treatments.change>>}
    ELSE {}

Abs(x) == IF x < 0 THEN -x ELSE x

\* C6: the reported change is ((current - previous) / previous) * 100 as a
\* two-decimal number (within half a hundredth of it) when previous > 0, is
\* 100 when previous = 0 < current and 0 when both are 0; a request with one
\* of the five time frames over an initialized store, empty or not, succeeds.
C6_ChangeFormula ==
    /\ \A t \in Triples :
          /\ t[2] > 0 => 2 * Abs(t[3] * t[2] - (t[1] - t[2]) * 100 * 100) <= t[2]
          /\ (t[2] = 0 /\ t[1] > 0) => t[3] = 100 * 100
          /\ (t[2] = 0 /\ t[1] = 0) => t[3] = 0
    /\ (resp.op # "none" /\ connected /\ TimeFrameParam(resp.query) \in TimeFrames) => resp.status = 200

C6_Witness ==
    /\ resp.op = "treatments" /\ resp.status = 200
    /\ resp.data.previous.total > 0 /\ resp.data.current.total # resp.data.previous.total

C6_WitnessEmpty ==
    /\ resp.op = "overview" /\ resp.status = 200 /\ patients = <<>> /\ treatments = <<>>

\* C7 as stated: the change is rounded to two decimals, a tie on the third
\* decimal going away from zero (-3.125 to -3.13, 3.125 to 3.13).
C7_HalfAwayFromZero ==
    (calc # NoCalc /\ calc.totalPrevious > 0) =>
        LET num == (calc.totalCurrent - calc.totalPrevious) * 100 * 100
            den == calc.totalPrevious
        IN  calc.change = (IF num < 0 THEN -1 ELSE 1) * ((2 * Abs(num) + den) \div (2 * den))

\* C7 as amended: the change is rounded to the nearest hundredth, a tie on the
\* third decimal going toward plus infinity (-3.125 to -3.12, 3.125 to 3.13).
C7_HalfUp ==
    (calc # NoCalc /\ calc.totalPrevious > 0) =>
        LET num == (calc.totalCurrent - calc.totalPrevious) * 100 * 100
            den == calc.totalPrevious
        IN  /\ (2 * calc.change - 1) * den <= 2 * num
            /\ 2 * num < (2 * calc.change + 1) * den

C7_Witness == calc # NoCalc /\ calc.totalCurrent = 31 /\ calc.totalPrevious = 32 /\ calc.change = -312

\* C8: over an initialized store, a request whose time frame is not one of
\* the five is rejected with the invalid-time-frame error before any read.
C8_UnknownFrameRejected ==
    (resp.op # "none" /\ connected /\ TimeFrameParam(resp.query) \notin TimeFrames) =>
        /\ resp.status # 200
        /\ resp.error.message = "Invalid time frame"
        /\ reads = 0

\* C9: a request rejected for its time frame is answered with a 4xx status.
C9_UnknownFrameIsClientError ==
    (resp.op # "none" /\ resp.status # 200 /\ resp.error.message = "Invalid time frame") =>
        resp.status \in 400 .. 499

\* the treatments whose date is neither absent, empty nor unparseable
Usable(docs) == SelectSeq(docs, LAMBDA doc : doc.date \notin Unusable)

\* C10: treatments whose date is absent, empty or unparseable count in no
\* total and no bucket (the answer is the one the store without them gets),
\* and the call succeeds.
C10_UnusableDatesExcluded ==
    /\ resp.op = "treatments" =>
          resp = Respond("treatments", resp.query,
                         getTreatmentsStats(tz, now, connected, Usable(treatments), TimeFrameParam(resp.query)))
    /\ resp.op = "overview" =>
          resp = Respond("overview", resp.query,
                         getOverviewStats(tz, now, connected, patients, Usable(treatments), TimeFrameParam(resp.query)))
    /\ (resp.op # "none" /\ connected /\ TimeFrameParam(resp.query) \in TimeFrames) => resp.status = 200

C10_Witness ==
    /\ resp.op = "treatments" /\ resp.status = 200
    /\ \E i \in DOMAIN treatments : treatments[i].date \in Unusable
    /\ resp.data.current.total + resp.data.previous.total > 0

\* t's local calendar day lies between those of lo and hi
DayBetween(t, lo, hi) == LocalDay(lo) <= LocalDay(t) /\ LocalDay(t) <= LocalDay(hi)

HasMembership == "inCurrent" \in DOMAIN calc

\* C11: a record is in a window exactly when its local calendar day lies
\* between the local calendar days of the window's bounds, whatever its time
\* of day, for the current and the previous window, in the filter of the
\* treatments and in the query of the patients.
C11_MembershipByDay ==
    HasMembership =>
        /\ calc.inCurrent  <=> DayBetween(calc.raw.t, range.start, range.end)
        /\ calc.inPrevious <=> DayBetween(calc.raw.t, range.previousStart, range.previousEnd)
        /\ calc.foundCurrent  <=> DayBetween(calc.raw.t, range.start, range.end)
        /\ calc.foundPrevious <=> DayBetween(calc.raw.t, range.previousStart, range.previousEnd)

\* a record of the last day of the current window, dated at midday
C11_Witness ==
    /\ HasMembership /\ calc.inCurrent /\ calc.foundCurrent
    /\ LocalDay(calc.raw.t) = LocalDay(range.end)
    /\ calc.raw.t = AddMs(range.end, -(12 * MsPerHour))

\* data holds one bucket per label of the records of part, counting the
\* records of that label, in strictly ascending order of label
BucketsOf(zone, part, interval, dateField, data) ==
    LET dated    == {i \in DOMAIN part : normalizeDate(zone, part[i][dateField]).ok}
        label(i) == formatDateForGrouping(zone, normalizeDate(zone, part[i][dateField]).t, interval)
    IN  /\ Len(data) = Cardinality({label(i) : i \in dated})
        /\ \A k \in DOMAIN data :
              /\ data[k].count > 0
              /\ data[k].count = Cardinality({i \in dated : label(i) = data[k].period})
        /\ \A k \in 1 .. Len(data) - 1 : StringLess(data[k].period, data[k + 1].period)

BucketsFor(op, r, interval, data) ==
    IF op = "patients"
    THEN /\ BucketsOf(tz, FindCreatedBetween(patients, r.start, r.end), interval, "createdAt", data.current.data)
         /\ BucketsOf(tz, FindCreatedBetween(patients, r.previousStart, r.previousEnd), interval,
                      "createdAt", data.previous.data)
    ELSE /\ BucketsOf(tz, TreatmentsBetween(tz, treatments, r.start, r.end), interval, "date", data.current.data)
         /\ BucketsOf(tz, TreatmentsBetween(tz, treatments, r.previousStart, r.previousEnd), interval,
                      "date", data.previous.data)

\* C12: the bucket sequence of each partition has exactly one bucket per
\* distinct label of the partition's records, its count the number of records
\* of that label, and is sorted by label in strictly ascending order.
C12_BucketsPerLabel ==
    (resp.op \in {"patients", "treatments"} /\ resp.status = 200) =>
        BucketsFor(resp.op, getDateRange(tz, now, TimeFrameParam(resp.query)),
                   getGroupingInterval(TimeFrameParam(resp.query)).interval, resp.data)

\* two records of the current window on two days, or on one
C12_Witness ==
    /\ resp.op = "treatments" /\ resp.status = 200
    /\ Len(resp.data.current.data) = 2
    /\ StringLess(resp.data.current.data[1].period, resp.data.current.data[2].period)

C12_WitnessShared ==
    /\ resp.op = "patients" /\ resp.status = 200
    /\ Len(resp.data.current.data) = 1 /\ resp.data.current.data[1].count = 2

HasLabels == "labelA" \in DOMAIN calc

\* the Monday of the week (Monday to Sunday) of a day number
MondayOf(day) == day - ((WeekDay(day) + 6) % 7)

\* a calendar date written year-month-day, month and day in two digits
DayLabel(c) == String(c.year) \o <<"-">> \o padStart2(String(c.month)) \o <<"-">> \o padStart2(String(c.date))

\* C13: the week label of an instant is the date of the Monday of the week
\* that holds the instant's local day, for every day of the week and over the
\* end of a month and of a year; a Sunday gets the Monday six days earlier.
C13_WeekLabelIsMonday ==
    (HasLabels /\ calc.interval = "week") =>
        calc.labelA = DayLabel(CivilFromDays(MondayOf(LocalDay(calc.a))))

\* Sunday 2023-12-31, labelled with Monday 2023-12-25
C13_Witness ==
    /\ HasLabels /\ calc.interval = "week"
    /\ WeekDay(LocalDay(calc.a)) = 0
    /\ CivilFromDays(LocalDay(calc.a)) = [year |-> 2023, month |-> 12, date |-> 31]
    /\ calc.labelA = <<"2", "0", "2", "3", "-", "1", "2", "-", "2", "5">>

\* a is lexicographically at most b
StringAtMost(a, b) == a = b \/ StringLess(a, b)

\* C14: for each grouping interval and any two instants a < b, the label of
\* a is lexicographically at most the label of b.
C14_LabelsMonotonic ==
    HasLabels => StringAtMost(calc.labelA, calc.labelB)

\* the same for instants whose labels all carry a year of four digits
FourDigitYears(t) ==
    /\ getFullYear[tz, t] \in 1000 .. 9999
    /\ getFullYear[tz, getWeekStart(tz, t)] \in 1000 .. 9999

C14_MonotonicInFourDigitYears ==
    (HasLabels /\ FourDigitYears(calc.a) /\ FourDigitYears(calc.b)) =>
        StringAtMost(calc.labelA, calc.labelB)

HasRoute == "route" \in DOMAIN calc

\* C15: for every time frame and clock reading the getDateRange of the
\* routes file and the getDateRange of dateUtils return the same start, end,
\* previousStart and previousEnd.
C15_RangesEquivalent ==
    HasRoute =>
        /\ calc.route.start = range.start
        /\ calc.route.end = range.end
        /\ calc.route.previousStart = range.previousStart
        /\ calc.route.previousEnd = range.previousEnd

\* what the two do agree on: the current window and the end of the previous one
C15_SameButPreviousStart ==
    HasRoute =>
        /\ calc.route.start = range.start
        /\ calc.route.end = range.end
        /\ calc.route.previousEnd = range.previousEnd

\* and on previousStart for the day frames in a zone without daylight saving
C15_SameDayFramesNoDst ==
    (HasRoute /\ range.timeFrame \in {"1d", "1w"} /\ tz.dst = <<>>) =>
        calc.route.previousStart = range.previousStart

\* C16: when the collections are not initialized each of the three stats
\* operations fails with the 'Database not initialized' server error,
\* status 500, and no read is issued, once or again.
C16_NotInitialized ==
    (resp.op # "none" /\ ~connected) =>
        /\ resp.status = 500
        /\ resp.error = [code |-> "Database Error", message |-> "Database not initialized"]
        /\ reads = 0

C16_Witness ==
    /\ resp.op = "overview" /\ ~connected /\ resp.status = 500
    /\ Len(patients) > 0 /\ Len(treatments) > 0

\* C17: no stats operation changes the patients or the treatments collection.
C17_ReadOnly == [][patients' = patients /\ treatments' = treatments]_vars

\* a request answered from a store that holds records of both kinds
C17_Witness ==
    /\ resp.op # "none" /\ resp.status = 200 /\ reads > 0
    /\ Len(patients) > 0 /\ Len(treatments) > 0

TotalsOf(out) ==
    [current |-> out.value.current.total, previous |-> out.value.previous.total, change |-> out.value.change]

\* C19: over the same store, at the same clock reading and for the same time
\* frame, the overview's patients and treatments figures are the totals and
\* the change of getPatientsStats and of getTreatmentsStats.
C19_OverviewAgrees ==
    (resp.op = "overview" /\ resp.status = 200) =>
        /\ resp.data.patients
              = TotalsOf(getPatientsStats(tz, now, connected, patients, TimeFrameParam(resp.query)))
        /\ resp.data.treatments
              = TotalsOf(getTreatmentsStats(tz, now, connected, treatments, TimeFrameParam(resp.query)))

C19_Witness ==
    /\ resp.op = "overview" /\ resp.status = 200
    /\ resp.data.patients.current # resp.data.patients.previous
    /\ resp.data.treatments.previous > 0

\* d.toISOString(): the UTC calendar date and time of day of the instant,
\* written 'YYYY-MM-DDTHH:mm:ss.sssZ'
ISOStringOf(c, ms) == [kind |-> "utc", year |-> c.year, month |-> c.month, date |-> c.date, ms |-> ms]

toISOString(t) == ISOStringOf(CivilFromDays(t.d), t.ms)

Normalized == norm.raw.kind # "none" /\ norm.out.ok

\* C20: when normalizeDate(x) is a date d, normalizeDate(d.toISOString()) is
\* the instant of d; a native date comes back as it is, and a string with a
\* time component gives the instant it denotes (UTC with 'Z', local time
\* without), its time of day kept.
C20_StableUnderReserialization ==
    Normalized =>
        /\ normalizeDate(tz, toISOString(norm.out.t)) = Some(norm.out.t)
        /\ norm.raw.kind = "Date" => norm.out.t = norm.raw.t
        /\ norm.raw.kind = "utc" =>
              norm.out.t = Inst(DaysFromCivil(norm.raw.year, norm.raw.month, norm.raw.date), norm.raw.ms)
        /\ norm.raw.kind = "local" =>
              LocalTime[tz, norm.out.t]
                 = Inst(DaysFromCivil(norm.raw.year, norm.raw.month, norm.raw.date), norm.raw.ms)

\* a local date-time string with a time of day, in a zone west of Greenwich
C20_Witness ==
    /\ Normalized /\ norm.raw.kind = "local" /\ norm.raw.ms > 0
    /\ tz = ZoneNewYork
    /\ toISOString(norm.out.t).date # norm.raw.date

\* what the method of the request returns when it runs at one clock reading
AtClock(op, clock, query) ==
    CASE op = "patients"   -> getPatientsStats(tz, clock, connected, patients, TimeFrameParam(query))
      [] op = "treatments" -> getTreatmentsStats(tz, clock, connected, treatments, TimeFrameParam(query))
      [] op = "overview"   -> getOverviewStats(tz, clock, connected, patients, treatments, TimeFrameParam(query))

\* C18: a stats request reads the wall clock once; every window that its
\* queries and filters use is a window of the range of that one reading, and
\* its response is the one of that reading, also when the day changes while
\* its reads are awaited.
C18_ClockReadOnce ==
    req.pc # "idle" =>
        /\ req.clockReads = (IF "range" \in DOMAIN req THEN 1 ELSE 0)
        /\ \A w \in req.used :
              w = RangeWindow(getDateRange(tz, req.started, TimeFrameParam(req.query)), w.which)
        /\ req.pc = "done" => resp = Respond(req.op, req.query, AtClock(req.op, req.started, req.query))

\* an overview answered a day after it began
C18_Witness ==
    /\ req.pc = "done" /\ req.op = "overview" /\ resp.status = 200
    /\ req.clockReads = 1
    /\ LocalDay(now) # LocalDay(req.started)
    /\ Cardinality(req.used) = 2
    /\ resp.data.treatments.current + resp.data.treatments.previous > 0

-----------------------------------------------------------------------------
(* The analysis of a treatment *)

\* the key is unset, empty or blank
KeyNotSet == apiKey = Null \/ trim(apiKey.t) = <<>>

\* the last response is the one of the analysis request that has ended
AnalyzeDone == req.pc = "done" /\ resp.op = "analyze"

ServiceUnavailable(r) == r.status = 503 /\ r.error.code = "Service Unavailable"

\* the answer GET /treatments/:id owes, told from the store alone
GetAnswer(r, open, docs) ==
    IF ~open THEN r.status = 500 /\ r.error.code = "Database Error"
    ELSE IF \A i \in 1 .. Len(docs) : docs[i].id # r.query
    THEN r.status = 404 /\ r.error.code = "Not Found"
    ELSE r.status = 200 /\ r.data.id = r.query /\ \E i \in 1 .. Len(docs) : r.data = docs[i]

\* C21 as stated: with the key unset, every analysis request ends in a 503
\* 'Service Unavailable' and has read and written nothing.
C21_Always503 ==
    (apiKey = Null /\ AnalyzeDone) => ServiceUnavailable(resp) /\ req.reads = 0 /\ ~req.wrote

\* C21: with the key unset, empty or blank, an analysis request reads and
\* writes no treatment and ends in a 503 'Service Unavailable' if the
\* collections are initialized, in a 500 'Database Error' if they are not;
\* GET /treatments/:id answers as the store alone dictates and leaves the
\* cached client as it is, whatever the key.
C21_KeyNotSet ==
    /\ [](KeyNotSet /\ AnalyzeDone =>
            /\ req.reads = 0 /\ ~req.wrote
            /\ IF connected THEN ServiceUnavailable(resp)
               ELSE resp.status = 500 /\ resp.error.code = "Database Error")
    /\ [][KeyNotSet /\ req'.pc # "idle" /\ req' # req => treatments' = treatments]_vars
    /\ [][resp'.op = "getTreatment" /\ resp' # resp =>
            /\ GetAnswer(resp', connected, treatments)
            /\ treatments' = treatments /\ openaiClient' = openaiClient]_vars

C21_Witness ==
    /\ apiKey = Null /\ connected /\ AnalyzeDone /\ ServiceUnavailable(resp)
    /\ Len(treatments) = 1 /\ req.id = 1

\* C24: when the generation of the analysis fails (no client, an error of the
\* provider, a rate limit, an empty completion) the request ends with an
\* error in that very step and the store is left as it is; a request that
\* ended with an error has written nothing, and what a request writes is a
\* non-empty analysis.
C24_FailureLeavesTreatment ==
    /\ [][req.pc = "generate" /\ req'.pc = "done" =>
            /\ resp'.op = "analyze" /\ resp'.status \in {429, 500, 503}
            /\ treatments' = treatments]_vars
    /\ [](AnalyzeDone /\ resp.status # 200 => ~req.wrote)
    /\ [](req.pc = "update" => req.analysis # Null /\ req.analysis.t # "")

C24_Witness ==
    /\ AnalyzeDone /\ resp.status = 429 /\ now # StatsNow
    /\ Len(treatments) = 1 /\ treatments[1].aiAnalysis = Some("earlier")
    /\ treatments[1].updatedAt = AddMs(StatsNow, -MsPerHour)

-----------------------------------------------------------------------------
(* The two partitions of a stats call *)

\* C22: no record is in both partitions of a stats call: for every time
\* frame, zone and clock reading, a date is never inside the current window
\* and inside the previous window, for the filter of the treatments
\* (isDateInRange) as for the query of the patients.
C22_PartitionsDisjoint ==
    HasMembership =>
        /\ ~(calc.inCurrent /\ calc.inPrevious)
        /\ ~(calc.foundCurrent /\ calc.foundPrevious)

\* a record of the last millisecond of the previous window, and so of the
\* millisecond before the current one begins
C22_Witness ==
    /\ HasMembership /\ calc.inPrevious /\ ~calc.inCurrent
    /\ calc.raw.t = range.previousEnd
    /\ AddMs(calc.raw.t, 1) = range.start

-----------------------------------------------------------------------------
(* Buckets and totals *)

RECURSIVE SumOfCounts(_)
SumOfCounts(data) == IF data = <<>> THEN 0 ELSE Head(data).count + SumOfCounts(Tail(data))

\* C23: in the answer of getPatientsStats and of getTreatmentsStats the counts
\* of the buckets of current add up to current.total and those of previous to
\* previous.total, whatever the records of the store.
C23_BucketsAddUp ==
    (resp.op \in {"patients", "treatments"} /\ resp.status = 200) =>
        /\ SumOfCounts(resp.data.current.data) = resp.data.current.total
        /\ SumOfCounts(resp.data.previous.data) = resp.data.previous.total

\* two treatments of the store counted in the current window, in two buckets,
\* beside a treatment-free previous window
C23_Witness ==
    /\ resp.op = "treatments" /\ resp.status = 200
    /\ resp.data.current.total = 2 /\ Len(resp.data.current.data) = 2
    /\ Len(treatments) = 2

-----------------------------------------------------------------------------
(* Uploads and deletions of one treatment *)

AllReturned == \A c \in DOMAIN calls : calls[c].pc = "done"

Succeeded(c) == calls[c].pc = "done" /\ calls[c].out.status = "ok"

\* the attachments of the stored treatment, none if it is not stored
StoredAttachments(id) ==
    IF IndexOf(treatments, id) = 0 THEN <<>> ELSE treatments[IndexOf(treatments, id)].attachemnts

Holds(attachments, attachment) == \E i \in DOMAIN attachments : attachments[i] = attachment

\* C25: when two or more uploadFiles calls for the same treatment have all
\* returned successfully, however they were interleaved, the treatment's
\* attachment list holds every attachment that every call returned.
C25_NoUploadLost ==
    (/\ Len(calls) >= 2
     /\ \A c \in DOMAIN calls : calls[c].op = "uploadFiles" /\ calls[c].id = 1 /\ Succeeded(c))
    => \A c \in DOMAIN calls : \A i \in DOMAIN calls[c].made :
           Holds(StoredAttachments(1), calls[c].made[i])

\* C26: when deleteTreatment has succeeded and every call has finished,
\* however it was interleaved with uploadFiles for the same treatment, every
\* file on disk is referenced by a stored treatment.
C26_NoOrphanFile ==
    (AllReturned /\ \E c \in DOMAIN calls : calls[c].op = "deleteTreatment" /\ Succeeded(c))
    => \A f \in disk : \E i \in DOMAIN treatments : f \in FilesOf(treatments[i].attachemnts)

-----------------------------------------------------------------------------
(* The removal of an attachment *)

AttachmentsIn(docs, id) == IF IndexOf(docs, id) = 0 THEN <<>> ELSE docs[IndexOf(docs, id)].attachemnts

\* the positions of a list that do not hold a 'file' attachment of that name
Kept(before, attachmentName) ==
    {i \in DOMAIN before : before[i].type # "file" \/ before[i].data # attachmentName}

\* after is before without its 'file' attachments of that name: what is kept
\* is there, once each, in the order it had
ExactlyRemoved(before, after, attachmentName) ==
    /\ Len(after) = Cardinality(Kept(before, attachmentName))
    /\ \A k \in DOMAIN after :
          \E i \in Kept(before, attachmentName) :
              /\ Cardinality({j \in Kept(before, attachmentName) : j <= i}) = k
              /\ after[k] = before[i]
    /\ Kept(before, attachmentName) = DOMAIN before => after = before

\* C29: a deleteAttachment call that succeeds takes out of the treatment's
\* list exactly the 'file' attachments whose data is the given name; every
\* other attachment, a 'text' attachment of the same data included, stays, in
\* the same relative order, and a list without a match stays as it is.
C29_RemovesExactlyNamedFiles ==
    [][\A c \in DOMAIN calls :
          (calls[c].op = "deleteAttachment" /\ calls[c].pc = "update" /\ calls'[c].out.status = "ok")
          => ExactlyRemoved(AttachmentsIn(treatments, calls[c].id),
                            AttachmentsIn(treatments', calls[c].id), calls[c].arg)]_vars

\* file 'a' is removed from between a text 'a' and a file 'b', which stay
C29_Witness ==
    /\ Len(calls) = 1 /\ calls[1].op = "deleteAttachment" /\ Succeeded(1) /\ calls[1].arg = <<"a">>
    /\ calls[1].seen = <<[type |-> "text", data |-> <<"a">>, path |-> Null],
                         FileAttachment(<<"a">>), FileAttachment(<<"b">>)>>
    /\ StoredAttachments(1) = <<[type |-> "text", data |-> <<"a">>, path |-> Null],
                                FileAttachment(<<"b">>)>>

-----------------------------------------------------------------------------
(* Creations with the same id *)

UniqueIds(docs) == \A i, j \in DOMAIN docs : docs[i].id = docs[j].id => i = j

\* the calls that create in the same collection with the same id as call c
Rivals(c) == {o \in DOMAIN calls : calls[o].op = calls[c].op /\ calls[o].id = calls[c].id}

Conflict(c) ==
    /\ calls[c].out.status = "throw"
    /\ onError(calls[c].out).status = 409 /\ onError(calls[c].out).error.code = "Conflict"

\* C27: however createTreatment (or createPatient) calls with the same id are
\* interleaved, no collection ever holds two documents of one id, and once
\* the calls have returned at most one of them has inserted and every other
\* one has failed with a 409 'Conflict'.
C27_OneInsertOthersConflict ==
    /\ UniqueIds(treatments) /\ UniqueIds(patients)
    /\ AllReturned =>
          \A c \in DOMAIN calls :
              /\ Cardinality({o \in Rivals(c) : Succeeded(o)}) <= 1
              /\ \A o \in Rivals(c) : Succeeded(o) \/ Conflict(o)

-----------------------------------------------------------------------------
(* The connection's life cycle *)

\* the clients that were created and not closed, a failed connect apart
OpenClients == {k \in DOMAIN clients : clients[k] \in {"new", "connected"}}

CollectionsSet ==
    /\ database.patientsCollection # Null
    /\ database.treatmentsCollection # Null
    /\ database.appointmentsCollection # Null

\* C28: however connectDatabase and closeDatabase calls are interleaved, at
\* most one MongoClient is created and not closed, and between the steps of
\* the calls isConnected() is true exactly when the three collection
\* references are non-null.
C28_OneClientAndConsistent ==
    /\ Cardinality(OpenClients) <= 1
    /\ isConnected <=> CollectionsSet

=============================================================================
